---- MODULE Spec2Model ----
(***************************************************************************)
(* Cidade Dorme: the match record (GameInstance), the night-action         *)
(* submission commands (cogs/actions.py), the night resolver               *)
(* (core/action_resolver.py) and the phase orchestration with its asyncio  *)
(* tasks (cogs/game_flow.py).                                              *)
(***************************************************************************)
EXTENDS Integers, Sequences, FiniteSets, TLC

VARIABLES
    game,       \* the GameInstance of the channel
    registry,   \* TRUE while bot.game_manager.get_game(channel) returns the match
    tasks,      \* asyncio tasks of the match: timer tasks and command handlers
    report      \* what the last run of resolve_night_actions handed back

vars == <<game, registry, tasks, report>>

None == 0

-----------------------------------------------------------------------------
(* Role catalog: the classes imported from roles/*.py and their factions.  *)

cidade_roles == {"Prefeito", "GuardaCostas", "Detetive", "Anjo", "Xerife",
                 "Medium", "VidenteDeAura", "CidadaoComum"}
viloes_roles == {"AssassinoAlfa", "AssassinoJunior", "Cumplice", "AssassinoSimples"}
solo_roles   == {"Palhaco", "Fofoqueiro", "Bruxo", "Cupido", "Praga", "Corruptor",
                 "CacadorDeCabecas"}

faction(role) ==
    IF role \in cidade_roles THEN "Cidade"
    ELSE IF role \in viloes_roles THEN "Viloes" ELSE "Solo"

\* isinstance(role, tuple(classes)); isinstance(x, ()) is False
isinstance(role, classes) == role \in classes

-----------------------------------------------------------------------------
(* GameInstance and PlayerState (cogs/game_instance.py): fields and the    *)
(* small accessors the cogs and the resolver call.                         *)

Players(g) == DOMAIN g.role

get_alive_players_states(g) == {p \in Players(g) : g.is_alive[p]}

get_player_state_by_id(g, pid) == pid \in Players(g)

is_night(g) == g.current_phase = "night"

is_day_voting(g) == g.current_phase = "day_voting"

NoKwargs == [k \in {} |-> None]

EmptyResults(g) ==
    [killed_players |-> <<>>, revived_players |-> <<>>, sound_events |-> <<>>,
     plague_kill_count |-> 0, dm_messages |-> [p \in Players(g) |-> <<>>],
     public_messages |-> <<>>, game_over |-> FALSE]

\* GameInstance(...) followed by add_player / assign_role for every member
NewGame(cast) ==
    [role |-> cast,
     is_alive |-> [p \in DOMAIN cast |-> TRUE],
     is_confused |-> [p \in DOMAIN cast |-> FALSE],
     is_corrupted |-> [p \in DOMAIN cast |-> FALSE],
     protected_by |-> [p \in DOMAIN cast |-> None],
     bodyguard_hits_survived |-> [p \in DOMAIN cast |-> 0],
     possession_points |-> [p \in DOMAIN cast |-> 0],
     is_infected |-> [p \in DOMAIN cast |-> FALSE],
     is_ghost |-> [p \in DOMAIN cast |-> FALSE],
     ghost_master_id |-> [p \in DOMAIN cast |-> None],
     current_phase |-> "preparing",
     current_night |-> 0,
     current_day |-> 0,
     night_actions |-> <<>>,
     day_votes |-> <<>>,
     day_skip_votes |-> {},
     decreto_used |-> FALSE, decreto_active |-> FALSE, sabotage_blocked |-> FALSE,
     sabotage_used |-> FALSE, fraud_used |-> FALSE, fraud_active |-> FALSE,
     witch_potion_used |-> FALSE, angel_revive_used |-> FALSE,
     medium_talk_used |-> FALSE, plague_exterminate_used |-> FALSE,
     prefeito_saved_once |-> FALSE, skip_villain_kill |-> FALSE,
     pending_resolution |-> FALSE,
     sheriff_shots_fired |-> 0, sheriff_shot_this_day |-> FALSE,
     sheriff_revealed |-> FALSE,
     lovers |-> <<>>,
     headhunter_info |-> <<>>,
     killers |-> [p \in DOMAIN cast |-> <<>>],
     death_reasons |-> [p \in DOMAIN cast |-> "none"],
     first_death_id |-> None,
     junior_marked_target_id |-> None,
     fofoqueiro_marked_target_id |-> None,
     plague_patient_zero_id |-> None,
     plague_player_id |-> None,
     successful_major_actions |-> <<>>,
     last_protected_target |-> [p \in DOMAIN cast |-> None],
     last_corrupted_target |-> [p \in DOMAIN cast |-> None],
     last_confused_target |-> [p \in DOMAIN cast |-> None],
     bruxo_major_action |-> <<>>,
     current_timer_task |-> None,
     game_master |-> 1]

\* PlayerState.kill()
kill(g, p) == [g EXCEPT !.is_alive[p] = FALSE]

\* PlayerState.revive()
revive(g, p) == [g EXCEPT !.is_alive[p] = TRUE]

\* GameInstance.reset_flags_for_player: the revived player stops being a ghost; the
\* resolver reads ghost_master_id right after the call, so the link itself is kept
reset_flags_for_player(g, p) ==
    [g EXCEPT !.is_ghost[p] = FALSE]

\* GameInstance.clear_nightly_states: drains the queue and the per-night modifiers
clear_nightly_states(g) ==
    [g EXCEPT !.night_actions = <<>>,
              !.is_confused = [p \in Players(g) |-> FALSE],
              !.is_corrupted = [p \in Players(g) |-> FALSE],
              !.protected_by = [p \in Players(g) |-> None],
              !.skip_villain_kill = FALSE]

\* GameInstance.clear_daily_states: clears the daily intents and per-day flags
clear_daily_states(g) ==
    [g EXCEPT !.day_votes = <<>>, !.day_skip_votes = {},
              !.decreto_active = FALSE, !.fraud_active = FALSE,
              !.sabotage_blocked = FALSE]

-----------------------------------------------------------------------------
(* The night-action queue: a dict keyed by player id; it keeps insertion   *)
(* order and an assignment to an existing key keeps the key's position.    *)

QueueKeys(q) == {q[i].key : i \in 1..Len(q)}

QueueIndex(q, pid) == CHOOSE i \in 1..Len(q) : q[i].key = pid

QueueGet(q, pid) == q[QueueIndex(q, pid)].data

QueuePut(q, pid, data) ==
    IF pid \in QueueKeys(q)
    THEN [q EXCEPT ![QueueIndex(q, pid)] = [key |-> pid, data |-> data]]
    ELSE Append(q, [key |-> pid, data |-> data])

\* dict.get(key) on an action's data: None when the key is absent
DataGet(data, k) == IF k \in DOMAIN data THEN data[k] ELSE None

record_night_action(g, player_id, role, action_name, target_id, priority, kwargs) ==
    [g EXCEPT !.night_actions =
        QueuePut(@, player_id,
                 kwargs @@ [action |-> action_name, target_id |-> target_id,
                            role |-> role, priority |-> priority])]

\* find_player_by_name with the default alive_only=True; names identify players
find_player_by_name(g, jogador) ==
    IF jogador \in Players(g) /\ g.is_alive[jogador] THEN jogador ELSE None

find_dead_player_by_name(g, jogador) ==
    IF jogador \in Players(g) /\ ~g.is_alive[jogador] THEN jogador ELSE None

-----------------------------------------------------------------------------
(* The command checks (decorators of cogs/actions.py).  A command whose     *)
(* check fails answers the caller and leaves the match as it is.           *)

check_game_phase(g, allowed_phases) == g.current_phase \in allowed_phases

check_player_state(g, author, requires_alive, command) ==
    /\ get_player_state_by_id(g, author)
    /\ ~(requires_alive /\ ~g.is_alive[author] /\ command # "assombrar")

check_role(g, author, allowed_roles) ==
    /\ get_player_state_by_id(g, author)
    /\ isinstance(g.role[author], allowed_roles)
    /\ ~(is_night(g) /\ g.is_corrupted[author])

check_is_ghost(g, author) ==
    get_player_state_by_id(g, author) /\ g.is_ghost[author]

-----------------------------------------------------------------------------
(* Commands that record a night action.  Each operator gives the match     *)
(* after the command; a rejected command gives the match unchanged.        *)

possuir(g, author, jogador) ==
    LET target == find_player_by_name(g, jogador) IN
    IF ~(check_game_phase(g, {"night"}) /\ check_player_state(g, author, TRUE, "possuir")
         /\ check_role(g, author, {"AssassinoAlfa"})) THEN g
    ELSE IF Cardinality(Players(g)) < 11 THEN g
    ELSE IF target = None THEN g
    ELSE IF faction(g.role[target]) = "Viloes" THEN g
    ELSE record_night_action(g, author, g.role[author], "possess", target, 90, NoKwargs)

apaixonar(g, author, jogador1, jogador2) ==
    LET target1 == find_player_by_name(g, jogador1)
        target2 == find_player_by_name(g, jogador2) IN
    IF ~(check_game_phase(g, {"night"}) /\ check_player_state(g, author, TRUE, "apaixonar")
         /\ check_role(g, author, {"Cupido"})) THEN g
    ELSE IF g.current_night # 1 THEN g
    ELSE IF target1 = None \/ target2 = None THEN g
    ELSE IF target1 = target2 THEN g
    ELSE record_night_action(g, author, g.role[author], "cupid_match", None, 10,
                             [lover1_id |-> target1, lover2_id |-> target2])

proteger(g, author, jogador) ==
    LET target == find_player_by_name(g, jogador) IN
    IF ~(check_game_phase(g, {"night"}) /\ check_player_state(g, author, TRUE, "proteger")
         /\ check_role(g, author, {"GuardaCostas"})) THEN g
    ELSE IF target = None THEN g
    ELSE IF target = author THEN g
    ELSE IF g.last_protected_target[author] = target THEN g
    ELSE [record_night_action(g, author, g.role[author], "protect", target, 20, NoKwargs)
            EXCEPT !.last_protected_target[author] = target]

corromper(g, author, jogador) ==
    LET target == find_player_by_name(g, jogador) IN
    IF ~(check_game_phase(g, {"night"}) /\ check_player_state(g, author, TRUE, "corromper")
         /\ check_role(g, author, {"Corruptor"})) THEN g
    ELSE IF target = None THEN g
    ELSE IF g.last_corrupted_target[author] = target THEN g
    ELSE [record_night_action(g, author, g.role[author], "corrupt", target, 15, NoKwargs)
            EXCEPT !.last_corrupted_target[author] = target]

confundir(g, author, jogador) ==
    LET target == find_player_by_name(g, jogador) IN
    IF ~(check_game_phase(g, {"night"}) /\ check_player_state(g, author, TRUE, "confundir")
         /\ check_role(g, author, {"AssassinoJunior"})) THEN g
    ELSE IF target = None THEN g
    ELSE IF g.last_confused_target[author] = target THEN g
    ELSE [record_night_action(g, author, g.role[author], "confuse", target, 16, NoKwargs)
            EXCEPT !.last_confused_target[author] = target]

eliminar(g, author, jogador) ==
    LET is_witch == isinstance(g.role[author], {"Bruxo"})
        target == find_player_by_name(g, jogador)
        g1 == IF is_witch
              THEN [g EXCEPT !.bruxo_major_action = <<"kill", target>>] ELSE g IN
    IF ~(check_game_phase(g, {"night"}) /\ check_player_state(g, author, TRUE, "eliminar")
         /\ check_role(g, author, {"AssassinoAlfa", "AssassinoJunior", "Cumplice",
                                    "Bruxo", "AssassinoSimples"})) THEN g
    ELSE IF is_witch /\ g.witch_potion_used THEN g
    ELSE IF target = None THEN g
    ELSE IF target = author THEN g
    ELSE record_night_action(g1, author, g.role[author],
                             IF is_witch THEN "witch_kill" ELSE "villain_vote",
                             target, IF is_witch THEN 25 ELSE 30, NoKwargs)

reviver(g, author, jogador) ==
    LET is_angel == isinstance(g.role[author], {"Anjo"})
        is_witch == isinstance(g.role[author], {"Bruxo"})
        target == find_dead_player_by_name(g, jogador)
        g1 == IF is_witch
              THEN [g EXCEPT !.bruxo_major_action = <<"revive", target>>] ELSE g IN
    IF ~(check_game_phase(g, {"night"}) /\ check_player_state(g, author, TRUE, "reviver")
         /\ check_role(g, author, {"Anjo", "Bruxo"})) THEN g
    ELSE IF is_angel /\ g.angel_revive_used THEN g
    ELSE IF is_witch /\ g.witch_potion_used THEN g
    ELSE IF target = None THEN g
    ELSE record_night_action(g1, author, g.role[author],
                             IF is_angel THEN "angel_revive" ELSE "witch_revive",
                             target, 40, NoKwargs)

\* jogador2 = None stands for the optional second name left out
marcar(g, author, jogador1, jogador2) ==
    LET target1 == find_player_by_name(g, jogador1)
        target2 == find_player_by_name(g, jogador2) IN
    IF ~(check_game_phase(g, {"night"}) /\ check_player_state(g, author, TRUE, "marcar")
         /\ check_role(g, author, {"Detetive"})) THEN g
    ELSE IF Cardinality(Players(g)) <= 5
    THEN IF jogador2 # None THEN g
         ELSE IF target1 = None THEN g
         ELSE record_night_action(g, author, g.role[author], "mark_detective", None, 60,
                                  [target1_id |-> target1, target2_id |-> None])
    ELSE IF jogador2 = None THEN g
         ELSE IF target1 = None \/ target2 = None THEN g
         ELSE IF target1 = target2 THEN g
         ELSE record_night_action(g, author, g.role[author], "mark_detective", None, 60,
                                  [target1_id |-> target1, target2_id |-> target2])

mediunidade(g, author, jogador_morto) ==
    LET target == find_dead_player_by_name(g, jogador_morto) IN
    IF ~(check_game_phase(g, {"night"}) /\ check_player_state(g, author, TRUE, "mediunidade")
         /\ check_role(g, author, {"Medium"})) THEN g
    ELSE IF g.medium_talk_used THEN g
    ELSE IF target = None THEN g
    ELSE IF g.is_ghost[target] THEN g
    ELSE [g EXCEPT !.medium_talk_used = TRUE, !.is_ghost[target] = TRUE,
                   !.ghost_master_id[target] = author]

assombrar(g, author, jogador) ==
    LET target == find_player_by_name(g, jogador) IN
    IF ~(check_game_phase(g, {"night"}) /\ check_player_state(g, author, FALSE, "assombrar")
         /\ check_is_ghost(g, author)) THEN g
    ELSE IF target = None THEN g
    ELSE record_night_action(g, author, g.role[author], "haunt", target, 5, NoKwargs)

exterminar(g, author) ==
    IF ~(check_game_phase(g, {"night"}) /\ check_player_state(g, author, TRUE, "exterminar")
         /\ check_role(g, author, {"Praga"})) THEN g
    ELSE IF g.plague_exterminate_used THEN g
    ELSE record_night_action(g, author, g.role[author], "plague_exterminate", None, 35,
                             NoKwargs)

\* f"{role.name.lower().replace(' ', '_')}_target"
target_action_name(role) ==
    IF role = "Praga" THEN "praga_target"
    ELSE IF role = "AssassinoJunior" THEN "assassino_junior_target"
    ELSE "fofoqueiro_target"

escolher_alvo(g, author, jogador) ==
    LET target == find_player_by_name(g, jogador)
        r == g.role[author]
        g1 == IF r = "Praga" THEN [g EXCEPT !.plague_patient_zero_id = target]
              ELSE IF r = "AssassinoJunior" THEN [g EXCEPT !.junior_marked_target_id = target]
              ELSE IF r = "Fofoqueiro" THEN [g EXCEPT !.fofoqueiro_marked_target_id = target]
              ELSE g IN
    IF ~(check_game_phase(g, {"night"}) /\ check_player_state(g, author, TRUE, "escolher_alvo")
         /\ check_role(g, author, {"Cumplice", "AssassinoJunior", "Fofoqueiro", "Praga"}))
    THEN g
    ELSE IF g.current_night # 1 THEN g
    ELSE IF target = None THEN g
    ELSE IF isinstance(r, {"Cumplice"}) THEN g
    ELSE record_night_action(g1, author, r, target_action_name(r), target, 70, NoKwargs)

-----------------------------------------------------------------------------
(* core/action_resolver.py: resolution of the night.                       *)

RECURSIVE FoldLeft(_, _, _)
FoldLeft(Op(_, _), acc, s) ==
    IF s = <<>> THEN acc ELSE FoldLeft(Op, Op(acc, Head(s)), Tail(s))

SeqToSet(s) == {s[i] : i \in 1..Len(s)}

RECURSIVE SetToSortedSeq(_)
SetToSortedSeq(S) ==
    IF S = {} THEN <<>>
    ELSE LET m == CHOOSE x \in S : \A y \in S : x <= y
         IN <<m>> \o SetToSortedSeq(S \ {m})

Msg(tag, ids) == [tag |-> tag, ids |-> ids]

AddDm(res, pid, msg) == [res EXCEPT !.dm_messages[pid] = Append(@, msg)]

AddSound(res, key) == [res EXCEPT !.sound_events = Append(@, key)]

\* one step of sorted(): the entry goes after the entries of lower or equal priority
InsertByPriority(acc, e) ==
    LET n == Cardinality({i \in 1..Len(acc) : acc[i].data.priority <= e.data.priority})
    IN SubSeq(acc, 1, n) \o <<e>> \o SubSeq(acc, n + 1, Len(acc))

\* sorted(game.night_actions.items(), key=lambda item: item[1]["priority"])
sorted_actions(q) == FoldLeft(InsertByPriority, <<>>, q)

\* the targets of the confuse actions of the queue become confused
ConfuseStep(g, e) ==
    IF e.data.action = "confuse" /\ get_player_state_by_id(g, e.data.target_id)
    THEN [g EXCEPT !.is_confused[e.data.target_id] = TRUE]
    ELSE g

apply_confuse(g) == FoldLeft(ConfuseStep, g, sorted_actions(g.night_actions))

\* possible_targets of a confused actor: the dead for a revival, the living otherwise,
\* without the actor and the declared target
possible_targets(g, player_id, data) ==
    LET is_revive == data.action \in {"angel_revive", "witch_revive"}
        query == IF is_revive THEN {p \in Players(g) : ~g.is_alive[p]}
                 ELSE get_alive_players_states(g)
    IN query \ {player_id, data.target_id}

\* the second loop of _apply_status_effects; conf[p] is random.choice's pick for p
redirect_entry(st, e, conf) ==
    LET g == st.g
        pid == e.key IN
    IF get_player_state_by_id(g, pid) /\ g.is_confused[pid] /\ "target_id" \in DOMAIN e.data
       /\ possible_targets(g, pid, e.data) # {}
    THEN [st EXCEPT !.g.night_actions =
                        QueuePut(@, pid, [e.data EXCEPT !.target_id = conf[pid]]),
                    !.res = AddDm(@, pid, Msg("confused", {}))]
    ELSE st

\* the third loop of _apply_status_effects: corrupt, then protect, by priority
StatusStep(st, e) ==
    LET g == st.g
        target_id == e.data.target_id IN
    IF e.data.action = "corrupt"
    THEN IF get_player_state_by_id(g, target_id)
         THEN [st EXCEPT !.g.is_corrupted[target_id] = TRUE,
                         !.res = AddDm(@, target_id, Msg("corrupted", {}))]
         ELSE st
    ELSE IF e.data.action = "protect"
    THEN IF get_player_state_by_id(g, e.key) /\ ~g.is_corrupted[e.key]
            /\ get_player_state_by_id(g, target_id)
         THEN [st EXCEPT !.g.protected_by[target_id] = e.key]
         ELSE st
    ELSE st

\* the second loop runs over game.night_actions itself, in insertion order
apply_redirects(g1, res, conf) ==
    LET Redirect(st, e) == redirect_entry(st, e, conf)
    IN FoldLeft(Redirect, [g |-> g1, res |-> res], g1.night_actions)

apply_corrupt_protect(st2) == FoldLeft(StatusStep, st2, sorted_actions(st2.g.night_actions))

apply_status_effects(g, res, conf) ==
    apply_corrupt_protect(apply_redirects(apply_confuse(g), res, conf))

UniqueStep(st, e) ==
    LET g == st.g
        target_id == e.data.target_id IN
    IF ~get_player_state_by_id(g, e.key) \/ g.is_corrupted[e.key] THEN st
    ELSE IF e.data.action = "possess"
    THEN LET g1 == [g EXCEPT !.skip_villain_kill = TRUE] IN
         IF get_player_state_by_id(g, target_id)
         THEN LET points == g.possession_points[target_id] + 1
                  g2 == [g1 EXCEPT !.possession_points[target_id] = points]
              IN [g |-> IF points >= 3
                        THEN [g2 EXCEPT !.role[target_id] = "AssassinoSimples"] ELSE g2,
                  res |-> AddDm(st.res, e.key, Msg("possess", {target_id}))]
         ELSE [st EXCEPT !.g = g1]
    ELSE IF e.data.action = "cupid_match"
    THEN LET lover1_id == e.data.lover1_id
             lover2_id == e.data.lover2_id
             g1 == [g EXCEPT !.lovers = <<lover1_id, lover2_id>>]
         IN IF lover1_id \in Players(g) /\ lover2_id \in Players(g)
            THEN [g |-> g1,
                  res |-> AddDm(AddDm(st.res, lover1_id, Msg("lover", {lover2_id})),
                                lover2_id, Msg("lover", {lover1_id}))]
            ELSE [st EXCEPT !.g = g1]
    ELSE st

resolve_unique_actions(st) ==
    FoldLeft(UniqueStep, st, sorted_actions(st.g.night_actions))

\* an ordered dict target -> value, as a sequence of [key, val]
DictHas(d, k) == \E i \in 1..Len(d) : d[i].key = k

DictIdx(d, k) == CHOOSE i \in 1..Len(d) : d[i].key = k

Attempt(source, attacker, is_list) ==
    [source |-> source, attacker |-> attacker, is_list |-> is_list]

\* kill_attempts.setdefault(target_id, []).append(attempt)
AddAttempt(ka, target_id, attempt) ==
    IF DictHas(ka, target_id)
    THEN [ka EXCEPT ![DictIdx(ka, target_id)].val = Append(@, attempt)]
    ELSE Append(ka, [key |-> target_id, val |-> <<attempt>>])

vote_weight(data) == IF isinstance(data.role, {"AssassinoAlfa"}) THEN 2 ELSE 1

GatherStep(st, e) ==
    LET g == st.g IN
    IF ~get_player_state_by_id(g, e.key) \/ g.is_corrupted[e.key] THEN st
    ELSE IF e.data.action = "villain_vote"
    THEN LET t == e.data.target_id
             w == vote_weight(e.data)
         IN [st EXCEPT !.villain_votes =
                IF DictHas(@, t) THEN [@ EXCEPT ![DictIdx(@, t)].val = @ + w]
                ELSE Append(@, [key |-> t, val |-> w])]
    ELSE IF e.data.action = "witch_kill"
    THEN [st EXCEPT !.kill_attempts =
                        AddAttempt(@, e.data.target_id, Attempt("witch", <<e.key>>, FALSE)),
                    !.g.witch_potion_used = TRUE]
    ELSE st

\* max(villain_votes, key=villain_votes.get): the first key with the highest total
max_vote_target(villain_votes) ==
    LET best == CHOOSE i \in 1..Len(villain_votes) :
                    /\ \A j \in 1..Len(villain_votes) :
                          villain_votes[j].val <= villain_votes[i].val
                    /\ \A j \in 1..(i - 1) : villain_votes[j].val < villain_votes[i].val
    IN villain_votes[best].key

\* the voters named for the villain kill: every villain_vote of the queue on the target
villain_voters(g, target_id) ==
    SelectSeq([i \in 1..Len(g.night_actions) |->
                  IF g.night_actions[i].data.action = "villain_vote"
                     /\ g.night_actions[i].data.target_id = target_id
                  THEN g.night_actions[i].key ELSE None],
              LAMBDA k : k # None)

\* the villains' kill goes after the witch's in kill_attempts
villain_kill_attempt(st, target_id) ==
    IF st.villain_votes # <<>> /\ ~st.g.skip_villain_kill
    THEN [g |-> st.g,
          kill_attempts |-> AddAttempt(st.kill_attempts, target_id,
              Attempt("villain", villain_voters(st.g, target_id), TRUE))]
    ELSE [g |-> st.g, kill_attempts |-> st.kill_attempts]

gathered_votes(g) ==
    FoldLeft(GatherStep, [g |-> g, villain_votes |-> <<>>, kill_attempts |-> <<>>],
             sorted_actions(g.night_actions))

vote_target(st) == IF st.villain_votes = <<>> THEN None ELSE max_vote_target(st.villain_votes)

votes_to_attempts(st) == villain_kill_attempt(st, vote_target(st))

gather_kill_attempts(g) == votes_to_attempts(gathered_votes(g))

Death(victim, cause, killer, is_list) ==
    [victim |-> victim, cause |-> cause, killer |-> killer, is_list |-> is_list]

\* DeathStep with the protection left out: the target of the attack dies
DeathStep_Unprotected(st, ka) ==
    IF ~get_player_state_by_id(st.g, ka.key) \/ ~st.g.is_alive[ka.key] THEN st
    ELSE [st EXCEPT !.final_deaths = Append(@, Death(ka.key, ka.val[1].source,
                                                     ka.val[1].attacker, ka.val[1].is_list))]

\* DeathStep with the bodyguard's own resistance kept apart from the hits taken
\* for the protected player: a direct hit is resisted without being counted
DeathStep_SeparateCounters(st, ka) ==
    LET g == st.g
        target_id == ka.key
        first == ka.val[1]
        protector == g.protected_by[target_id] IN
    IF ~get_player_state_by_id(g, target_id) \/ ~g.is_alive[target_id] THEN st
    ELSE IF protector # None /\ first.source = "villain"
    THEN IF g.bodyguard_hits_survived[protector] = 0
         THEN [st EXCEPT !.g.bodyguard_hits_survived[protector] = 1,
                         !.res = AddSound(@, "PROTECTION_SUCCESS")]
         ELSE [st EXCEPT !.g.bodyguard_hits_survived[protector] = @ + 1,
                         !.res = AddSound(@, "PLAYER_DEATH"),
                         !.final_deaths = Append(@, Death(protector, "bodyguard_sacrifice",
                                                          <<target_id>>, FALSE))]
    ELSE IF isinstance(g.role[target_id], {"GuardaCostas"})
    THEN [st EXCEPT !.res = AddSound(@, "PROTECTION_SUCCESS")]
    ELSE [st EXCEPT !.final_deaths = Append(@, Death(target_id, first.source,
                                                     first.attacker, first.is_list))]

\* DeathStep with the protection applied to an attack of any source
DeathStep_AnySource(st, ka) ==
    LET g == st.g
        target_id == ka.key
        first == ka.val[1]
        protector == g.protected_by[target_id] IN
    IF ~get_player_state_by_id(g, target_id) \/ ~g.is_alive[target_id] THEN st
    ELSE IF protector # None
    THEN LET hits == g.bodyguard_hits_survived[protector] + 1
             g1 == [g EXCEPT !.bodyguard_hits_survived[protector] = hits]
         IN IF hits = 1
            THEN [st EXCEPT !.g = g1, !.res = AddSound(@, "PROTECTION_SUCCESS")]
            ELSE [st EXCEPT !.g = g1,
                     !.res = AddSound(@, "PLAYER_DEATH"),
                     !.final_deaths = Append(@, Death(protector, "bodyguard_sacrifice",
                                                      <<target_id>>, FALSE))]
    ELSE [st EXCEPT !.final_deaths = Append(@, Death(target_id, first.source,
                                                     first.attacker, first.is_list))]

DeathStep(st, ka) ==
    LET g == st.g
        target_id == ka.key
        first == ka.val[1]
        protector == g.protected_by[target_id] IN
    IF ~get_player_state_by_id(g, target_id) \/ ~g.is_alive[target_id] THEN st
    ELSE IF protector # None /\ first.source = "villain"
    THEN IF get_player_state_by_id(g, protector)
         THEN LET hits == g.bodyguard_hits_survived[protector] + 1
                  g1 == [g EXCEPT !.bodyguard_hits_survived[protector] = hits]
              IN IF hits = 1
                 THEN [st EXCEPT !.g = g1,
                          !.res = AddDm(AddDm(AddSound(@, "PROTECTION_SUCCESS"),
                                              protector, Msg("shielded", {})),
                                        target_id, Msg("saved", {}))]
                 ELSE [st EXCEPT !.g = g1,
                          !.res = AddSound(@, "PLAYER_DEATH"),
                          !.final_deaths = Append(@, Death(protector, "bodyguard_sacrifice",
                                                           <<target_id>>, FALSE))]
         ELSE st
    ELSE IF isinstance(g.role[target_id], {"GuardaCostas"})
            /\ g.bodyguard_hits_survived[target_id] + 1 = 1
    THEN [st EXCEPT !.g.bodyguard_hits_survived[target_id] = 1,
                    !.res = AddDm(AddSound(@, "PROTECTION_SUCCESS"),
                                  target_id, Msg("resisted", {}))]
    ELSE [st EXCEPT !.g.bodyguard_hits_survived[target_id] =
                        IF isinstance(g.role[target_id], {"GuardaCostas"}) THEN @ + 1 ELSE @,
                    !.final_deaths = Append(@, Death(target_id, first.source,
                                                     first.attacker, first.is_list))]

resolve_deaths(g, kill_attempts, res) ==
    FoldLeft(DeathStep, [g |-> g, res |-> res, final_deaths |-> <<>>], kill_attempts)

Victims(deaths) == {deaths[i].victim : i \in 1..Len(deaths)}

\* ReviveStep as it would be were the medium's power restored whoever the revived
\* ghost is
ReviveStep_AnyGhost(st, e) ==
    LET g == st.g
        target_id == e.data.target_id IN
    IF ~get_player_state_by_id(g, e.key) \/ g.is_corrupted[e.key] THEN st
    ELSE IF e.data.action \in {"angel_revive", "witch_revive"}
            /\ get_player_state_by_id(g, target_id) /\ ~g.is_alive[target_id]
            /\ target_id \notin Victims(st.final_deaths)
    THEN LET g1 == revive(g, target_id)
             g2 == IF e.data.action = "witch_revive"
                   THEN [g1 EXCEPT !.witch_potion_used = TRUE]
                   ELSE [g1 EXCEPT !.angel_revive_used = TRUE]
             g3 == reset_flags_for_player(g2, target_id)
             g4 == IF g3.ghost_master_id[target_id] # None
                   THEN [g3 EXCEPT !.medium_talk_used = FALSE] ELSE g3
         IN [st EXCEPT !.g = g4,
                       !.res = AddSound(@, "PLAYER_REVIVE"),
                       !.revived = Append(@, <<target_id, e.key>>)]
    ELSE st

ReviveStep(st, e) ==
    LET g == st.g
        target_id == e.data.target_id IN
    IF ~get_player_state_by_id(g, e.key) \/ g.is_corrupted[e.key] THEN st
    ELSE IF e.data.action \in {"angel_revive", "witch_revive"}
            /\ get_player_state_by_id(g, target_id) /\ ~g.is_alive[target_id]
            /\ target_id \notin Victims(st.final_deaths)
    THEN LET g1 == revive(g, target_id)
             g2 == IF e.data.action = "witch_revive"
                   THEN [g1 EXCEPT !.witch_potion_used = TRUE]
                   ELSE [g1 EXCEPT !.angel_revive_used = TRUE]
             g3 == reset_flags_for_player(g2, target_id)
             g4 == IF isinstance(g3.role[target_id], {"Prefeito"})
                      /\ g3.ghost_master_id[target_id] # None
                      /\ get_player_state_by_id(g3, g3.ghost_master_id[target_id])
                   THEN [g3 EXCEPT !.medium_talk_used = FALSE] ELSE g3
         IN [st EXCEPT !.g = g4,
                       !.res = AddSound(@, "PLAYER_REVIVE"),
                       !.revived = Append(@, <<target_id, e.key>>)]
    ELSE st

resolve_revivals(g, final_deaths, res) ==
    FoldLeft(ReviveStep,
             [g |-> g, res |-> res, final_deaths |-> final_deaths, revived |-> <<>>],
             sorted_actions(g.night_actions))

\* the marked targets of a detective that are among the night's victims, in mark order
marked_killed_ids(data, final_deaths) ==
    SelectSeq(<<DataGet(data, "target1_id"), DataGet(data, "target2_id")>>,
              LAMBDA tid : tid \in Victims(final_deaths) /\ tid # None)

death_info(final_deaths, killed_id) ==
    final_deaths[CHOOSE i \in 1..Len(final_deaths) :
                    /\ final_deaths[i].victim = killed_id
                    /\ \A j \in 1..(i - 1) : final_deaths[j].victim # killed_id]

innocent_pool(g, player_id, killed_id, killer_id) ==
    get_alive_players_states(g) \ {player_id, killed_id, killer_id}

\* rnd.killer and rnd.innocent are the picks of random.choice
DetectiveStep(final_deaths, rnd, st, e) ==
    LET g == st.g
        player_id == e.key
        mk == marked_killed_ids(e.data, final_deaths) IN
    IF ~get_player_state_by_id(g, player_id) \/ g.is_corrupted[player_id] THEN st
    ELSE IF e.data.action # "mark_detective" THEN st
    ELSE IF mk = <<>> THEN [st EXCEPT !.res = AddDm(@, player_id, Msg("quiet_watch", {}))]
    ELSE LET killed_id == mk[1]
             info == death_info(final_deaths, killed_id)
             killer_ids == info.killer
             killer_id == IF rnd.killer \in 1..Len(killer_ids)
                          THEN killer_ids[rnd.killer] ELSE None
         IN IF killer_ids # <<>> /\ killer_id \in Players(g)
            THEN IF innocent_pool(g, player_id, killed_id, killer_id) # {}
                 THEN [st EXCEPT !.res = AddDm(@, player_id,
                                     Msg("clue", {killer_id, rnd.innocent}))]
                 ELSE [st EXCEPT !.res = AddDm(@, player_id, Msg("clue", {killer_id}))]
            ELSE [st EXCEPT !.res = AddDm(@, player_id, Msg("mystery", {}))]

first_action(sorted, name) ==
    LET hits == SelectSeq(sorted, LAMBDA e : e.data.action = name)
    IN IF hits = <<>> THEN <<>> ELSE <<hits[1].data>>

\* night_visits as built from the queue when resolution starts
visited_by(q0, target_id) ==
    {q0[i].key : i \in {j \in 1..Len(q0) : q0[j].data.target_id = target_id}}

visited(q0, pid) ==
    {q0[i].data.target_id :
        i \in {j \in 1..Len(q0) : q0[j].key = pid /\ q0[j].data.target_id # None}}

\* the haunt report, h being the haunt action of the queue if any;
\* haunt_action["player_id"] is a KeyError when the key is absent
haunt_report_of(st, q0, h) ==
    IF h = <<>> THEN st
    ELSE IF "player_id" \notin DOMAIN h[1] THEN [st EXCEPT !.raised = TRUE]
    ELSE IF get_player_state_by_id(st.g, h[1].player_id)
            /\ st.g.ghost_master_id[h[1].player_id] # None
    THEN [st EXCEPT !.res =
            AddDm(AddDm(@, h[1].player_id,
                        Msg("haunt_report", (visited_by(q0, h[1].target_id) \ {h[1].player_id})
                                                \cup visited(q0, h[1].target_id))),
                  st.g.ghost_master_id[h[1].player_id],
                  Msg("haunt_report", (visited_by(q0, h[1].target_id) \ {h[1].player_id})
                                          \cup visited(q0, h[1].target_id)))]
    ELSE st

haunt_report(st, q0) ==
    haunt_report_of(st, q0, first_action(sorted_actions(st.g.night_actions), "haunt"))

\* the plague deaths: one entry per infected player, naming the plague player
plague_deaths(ids, praga_id) ==
    [i \in 1..Len(ids) |-> Death(ids[i], "killed_by_plague", <<praga_id>>, FALSE)]

\* the plague extermination, x being the plague_exterminate action of the queue and
\* ids the living infected; prague_exterminate_action["player_id"] is read when four
\* or more are infected (the win) and for each plague death
\* plague_exterminate_of as it would be were the queued entry to carry the key
\* "player_id": the living infected die of the plague, the revived among them too
plague_exterminate_of_Keyed(st, x, ids) ==
    IF ids = <<>> THEN [st EXCEPT !.g.plague_exterminate_used = TRUE]
    ELSE [st EXCEPT !.g.plague_exterminate_used = TRUE,
                    !.res.plague_kill_count = Len(ids),
                    !.final_deaths = @ \o plague_deaths(ids, st.g.plague_player_id)]

plague_exterminate_of(st, x, ids) ==
    IF ids = <<>> THEN [st EXCEPT !.g.plague_exterminate_used = TRUE]
    ELSE IF "player_id" \notin DOMAIN x THEN [st EXCEPT !.g.plague_exterminate_used = TRUE,
                                                        !.raised = TRUE]
    ELSE IF Len(ids) >= 4 /\ x.player_id \in Players(st.g)
    THEN [st EXCEPT !.g.plague_exterminate_used = TRUE,
                    !.res.game_over = TRUE,
                    !.end_game_call = <<[title |-> "Vitoria da Praga!",
                                         winners |-> {x.player_id},
                                         faction |-> "Solo (Praga)"]>>]
    ELSE [st EXCEPT !.g.plague_exterminate_used = TRUE,
                    !.res.plague_kill_count = Len(ids),
                    !.final_deaths = @ \o plague_deaths(ids, x.player_id)]

infected_to_die_ids(g) == SetToSortedSeq({p \in Players(g) : g.is_infected[p] /\ g.is_alive[p]})

plague_exterminate_if(st, xs) ==
    IF xs = <<>> \/ st.g.plague_exterminate_used THEN st
    ELSE plague_exterminate_of(st, xs[1], infected_to_die_ids(st.g))

plague_exterminate(st) ==
    plague_exterminate_if(st, first_action(sorted_actions(st.g.night_actions),
                                           "plague_exterminate"))

\* infect_player of the infection spread
infect_player(st, player_id) ==
    IF player_id # st.g.plague_player_id /\ get_player_state_by_id(st.g, player_id)
       /\ ~st.g.is_infected[player_id]
    THEN [st EXCEPT !.g.is_infected[player_id] = TRUE,
                    !.res = AddDm(@, player_id, Msg("infected", {}))]
    ELSE st

infection_spread(st) ==
    LET g == st.g
        pz == g.plague_patient_zero_id
        InfectInteractor(s, e) ==
            IF e.data.target_id = pz THEN infect_player(s, e.key) ELSE s
    IN IF pz # None /\ get_player_state_by_id(g, pz) /\ g.is_alive[pz]
       THEN LET s1 == FoldLeft(InfectInteractor, st, g.night_actions)
            IN IF pz \in QueueKeys(g.night_actions)
                  /\ QueueGet(g.night_actions, pz).target_id # None
               THEN infect_player(s1, QueueGet(g.night_actions, pz).target_id)
               ELSE s1
       ELSE st

detective_reports(g, final_deaths, res, rnd) ==
    LET Detective(st, e) == DetectiveStep(final_deaths, rnd, st, e)
    IN FoldLeft(Detective,
                [g |-> g, res |-> res, final_deaths |-> final_deaths,
                 raised |-> FALSE, end_game_call |-> <<>>],
                sorted_actions(g.night_actions))

plague_stage(st2) == IF st2.raised THEN st2 ELSE plague_exterminate(st2)

spread_stage(st3) == IF st3.raised \/ st3.res.game_over THEN st3 ELSE infection_spread(st3)

resolve_information_and_plague(g, final_deaths, res, q0, rnd) ==
    spread_stage(plague_stage(haunt_report(detective_reports(g, final_deaths, res, rnd), q0)))

\* the stages up to the night's deaths and revivals; protected_by, hits_before and
\* kill_attempts keep what the death stage was given
after_unique_actions(g, conf) ==
    resolve_unique_actions(apply_status_effects(g, EmptyResults(g), conf))

deaths_of(ka, res) ==
    [s2 |-> resolve_deaths(ka.g, ka.kill_attempts, res),
     protected_by |-> ka.g.protected_by,
     hits_before |-> ka.g.bodyguard_hits_survived,
     kill_attempts |-> ka.kill_attempts]

deaths_from(s1) == deaths_of(gather_kill_attempts(s1.g), s1.res)

\* final_deaths = [d for d in deaths_before_revive if d[0] not in revived ids]
without_revived(d, s3) ==
    [g |-> s3.g, res |-> s3.res, revived |-> s3.revived,
     final_deaths |->
        SelectSeq(d.s2.final_deaths,
                  LAMBDA x : x.victim \notin {s3.revived[i][1] : i \in 1..Len(s3.revived)}),
     protected_by |-> d.protected_by, hits_before |-> d.hits_before,
     kill_attempts |-> d.kill_attempts]

revivals_from(d) == without_revived(d, resolve_revivals(d.s2.g, d.s2.final_deaths, d.s2.res))

deaths_and_revivals(g, conf) == revivals_from(deaths_from(after_unique_actions(g, conf)))

\* what resolve_night_actions leaves and returns, s4 being the state after the last
\* stage; raised = TRUE when it ends by an exception, the match as the exception
\* leaves it; is_confused and redirected keep the confusion flags and the queue as
\* the status effects left them
night_outcome(g, s3, s4) ==
    IF s4.raised
    THEN [g |-> s4.g, res |-> EmptyResults(g), raised |-> TRUE, end_game_call |-> <<>>,
          protected_by |-> s3.protected_by, hits_before |-> s3.hits_before,
          kill_attempts |-> s3.kill_attempts,
          is_confused |-> s3.g.is_confused, redirected |-> s3.g.night_actions]
    ELSE IF s4.res.game_over
    THEN [g |-> s4.g, res |-> s4.res, raised |-> FALSE, end_game_call |-> s4.end_game_call,
          protected_by |-> s3.protected_by, hits_before |-> s3.hits_before,
          kill_attempts |-> s3.kill_attempts,
          is_confused |-> s3.g.is_confused, redirected |-> s3.g.night_actions]
    ELSE [g |-> clear_nightly_states(s4.g),
          res |-> [s4.res EXCEPT !.killed_players = s4.final_deaths,
                                 !.revived_players = s3.revived],
          raised |-> FALSE, end_game_call |-> <<>>,
          protected_by |-> s3.protected_by, hits_before |-> s3.hits_before,
          kill_attempts |-> s3.kill_attempts,
          is_confused |-> s3.g.is_confused, redirected |-> s3.g.night_actions]

\* resolve_night_actions, s3 being its state after deaths_and_revivals and rnd the
\* picks for the detective's clue
resolve_night_actions(g, s3, rnd) ==
    night_outcome(g, s3, resolve_information_and_plague(s3.g, s3.final_deaths, s3.res,
                                                        g.night_actions, rnd))

-----------------------------------------------------------------------------
(* The picks of random.choice that a resolution can make on a match.       *)

\* the picks for the confused actors of the queue: one of possible_targets each
confused_actors(g1) ==
    {p \in QueueKeys(g1.night_actions) :
        g1.is_confused[p] /\ possible_targets(g1, p, QueueGet(g1.night_actions, p)) # {}}

RECURSIVE conf_product(_, _)
conf_product(g1, S) ==
    IF S = {} THEN {[p \in Players(g1) |-> None]}
    ELSE LET p == CHOOSE x \in S : TRUE
             rests == conf_product(g1, S \ {p})
         IN {[rest EXCEPT ![p] = v] :
                v \in possible_targets(g1, p, QueueGet(g1.night_actions, p)), rest \in rests}

ConfChoices(g) == conf_product(apply_confuse(g), confused_actors(apply_confuse(g)))

\* the picks for the detective's clue, given the night's deaths and revivals
clue_choices(s3) ==
    LET marks == SelectSeq(sorted_actions(s3.g.night_actions),
                           LAMBDA e : /\ e.data.action = "mark_detective"
                                      /\ ~s3.g.is_corrupted[e.key]
                                      /\ marked_killed_ids(e.data, s3.final_deaths) # <<>>)
    IN IF marks = <<>> THEN {<<None, None>>}
       ELSE LET killed_id == marked_killed_ids(marks[1].data, s3.final_deaths)[1]
                killer_ids == death_info(s3.final_deaths, killed_id).killer
            IN IF killer_ids = <<>> THEN {<<None, None>>}
               ELSE UNION {LET pool == innocent_pool(s3.g, marks[1].key, killed_id,
                                                     killer_ids[k])
                           IN {<<k, i>> : i \in IF pool = {} THEN {None} ELSE pool} :
                              k \in 1..Len(killer_ids)}

-----------------------------------------------------------------------------
(* One night of a twelve-player match: the commands fill the queue, then   *)
(* the resolver runs on it.                                                *)

MaxQueue == 3

NightCast ==
    <<"Prefeito", "GuardaCostas", "AssassinoAlfa", "Bruxo", "Detetive", "AssassinoJunior",
      "Corruptor", "Anjo", "Praga", "Cupido", "Medium", "Xerife">>

\* the names the commands are given in this night: the players to attack or protect,
\* the players to corrupt or confuse, the dead to call back, and the one name of the
\* commands whose target plays no part in the deaths of the night
Alvos == {1, 2}
Atores == {2, 3}
Mortos == {1, 12}
Outros == {1}

\* the players that send a command: the holders of its roles
Autores(g, roles) == {p \in Players(g) : g.role[p] \in roles}

NoReport ==
    [status |-> "none", res |-> <<>>, protected_by |-> <<>>, hits_before |-> <<>>,
     kill_attempts |-> <<>>, is_confused |-> <<>>, redirected |-> <<>>, before |-> <<>>]

\* the first night of the match
FirstNight == [NewGame(NightCast) EXCEPT !.current_phase = "night", !.current_night = 1]

\* a later night: the sheriff was killed by the villains in an earlier one, the
\* bodyguard has survived a hit, the plague has spread from patient zero, and in five
\* nights the alpha has possessed the cupid three times and the medium twice
LaterNight ==
    [FirstNight EXCEPT !.current_night = 8, !.current_day = 7,
                       !.possession_points[10] = 3, !.role[10] = "AssassinoSimples",
                       !.possession_points[11] = 2,
                       !.is_alive[12] = FALSE, !.death_reasons[12] = "villain",
                       !.killers[12] = <<3>>, !.first_death_id = 12,
                       !.bodyguard_hits_survived[2] = 1,
                       !.plague_patient_zero_id = 1,
                       !.is_infected = [p \in 1..12 |-> p \in {1, 2, 5, 8}]]

\* the third night to start from: the villains killed the mayor, patient zero, and
\* not the sheriff, and the mayor had infected the bodyguard
InitNight ==
    /\ game \in {FirstNight, LaterNight,
                 [FirstNight EXCEPT !.current_night = 3, !.current_day = 2,
                                    !.is_alive[1] = FALSE, !.death_reasons[1] = "villain",
                                    !.killers[1] = <<3>>, !.first_death_id = 1,
                                    !.plague_patient_zero_id = 1,
                                    !.is_infected = [p \in 1..12 |-> p \in {1, 2}]]}
    /\ registry = TRUE
    /\ tasks = <<>>
    /\ report = NoReport

\* a command of the night: it answers at once, leaving the match as the command gives it
Submit(g2) ==
    /\ registry
    /\ report.status = "none"
    /\ Len(g2.night_actions) <= MaxQueue
    /\ game' = g2
    /\ UNCHANGED <<registry, tasks, report>>

Possuir == \E a \in Autores(game, {"AssassinoAlfa"}), j \in Outros : Submit(possuir(game, a, j))

Apaixonar ==
    \E a \in Autores(game, {"Cupido"}), j1 \in Outros, j2 \in Alvos :
        Submit(apaixonar(game, a, j1, j2))

Proteger == \E a \in Autores(game, {"GuardaCostas"}), j \in Alvos : Submit(proteger(game, a, j))

Corromper == \E a \in Autores(game, {"Corruptor"}), j \in Atores : Submit(corromper(game, a, j))

\* the detective (5) and the angel (8) can be confused too
Confundir ==
    \E a \in Autores(game, {"AssassinoJunior"}), j \in Atores \cup {5, 8} :
        Submit(confundir(game, a, j))

Eliminar ==
    \E a \in Autores(game, viloes_roles \cup {"Bruxo"}), j \in Alvos :
        Submit(eliminar(game, a, j))

Reviver == \E a \in Autores(game, {"Anjo", "Bruxo"}), j \in Mortos : Submit(reviver(game, a, j))

Marcar ==
    \E a \in Autores(game, {"Detetive"}), j1 \in Outros, j2 \in Alvos \cup {None} :
        Submit(marcar(game, a, j1, j2))

Mediunidade == \E a \in Autores(game, {"Medium"}), j \in Mortos : Submit(mediunidade(game, a, j))

Assombrar == \E a \in Autores(game, {"Xerife", "Medium"}), j \in Outros : Submit(assombrar(game, a, j))

Exterminar == \E a \in Autores(game, {"Praga"}) : Submit(exterminar(game, a))

EscolherAlvo ==
    \E a \in Autores(game, {"AssassinoJunior", "Praga"}), j \in Outros :
        Submit(escolher_alvo(game, a, j))

\* the resolver has run: r is what it left and returned, before the match it ran on
Resolved(r) ==
    /\ game' = r.g
    /\ report' = [status |-> IF r.raised THEN "raised" ELSE "returned", res |-> r.res,
                  protected_by |-> r.protected_by, hits_before |-> r.hits_before,
                  kill_attempts |-> r.kill_attempts,
                  is_confused |-> r.is_confused, redirected |-> r.redirected,
                  before |-> game]

ResolveWith(s3) ==
    \E ki \in clue_choices(s3) :
        Resolved(resolve_night_actions(game, s3, [killer |-> ki[1], innocent |-> ki[2]]))

\* the resolver runs on the queue as it stands
ResolveNight ==
    /\ registry
    /\ report.status = "none"
    /\ \E conf \in ConfChoices(game) : ResolveWith(deaths_and_revivals(game, conf))
    /\ UNCHANGED <<registry, tasks>>

NextNight ==
    \/ Possuir \/ Apaixonar \/ Proteger \/ Corromper \/ Confundir \/ Eliminar
    \/ Reviver \/ Marcar \/ Mediunidade \/ Assombrar \/ Exterminar \/ EscolherAlvo
    \/ ResolveNight

SpecNight == InitNight /\ [][NextNight]_vars

-----------------------------------------------------------------------------
(* asyncio.  A task is the stack of the coroutines it is running, the      *)
(* innermost first.  A frame names its coroutine (f), the source line it   *)
(* goes on from (pc, 0 at entry) and its locals (p, r, q).  A task runs    *)
(* from one suspension point (an await that reaches the network, a sleep,  *)
(* a prompt) to the next without any other task running in between;        *)
(* consecutive awaits with no access to the match between them count as    *)
(* one suspension.  The running machine is a record st: the match (g), the *)
(* registry entry (reg), the tasks (ts), the observations (rp), the index  *)
(* of the running task (me), the value of the last return (ret) and halt,  *)
(* set when the running task suspends.                                     *)

Frame(f, pc, p, r, q) == [f |-> f, pc |-> pc, p |-> p, r |-> r, q |-> q]

Enter(f) == Frame(f, 0, None, "", <<>>)

\* the members of the players of g whose role is of faction fac
faction_members(g, fac) == {p \in Players(g) : faction(g.role[p]) = fac}

\* await self.end_game(game, title, winners, ...)
EndGame(title, winners) == Frame("end_game", 0, winners, title, FALSE)

\* asyncio.create_task / the task the framework runs a command handler in
create_task(kind, frame) ==
    [kind |-> kind, stack |-> <<frame>>, cancel |-> FALSE, current |-> FALSE, nights |-> 0]

Top(st) == st.ts[st.me].stack[1]

Goto(st, pc) == [st EXCEPT !.ts[st.me].stack[1].pc = pc]

\* an await that suspends the task; it goes on from line pc
Await(st, pc) == [st EXCEPT !.ts[st.me].stack[1].pc = pc, !.halt = TRUE]

\* await f(...): the caller goes on from line pc when f returns
Call(st, pc, frame) ==
    [st EXCEPT !.ts[st.me].stack = <<frame>> \o [@ EXCEPT ![1].pc = pc]]

\* await f(...) as the last statement of the caller
TailCall(st, frame) == [st EXCEPT !.ts[st.me].stack = <<frame>> \o Tail(@)]

Return(st, val) == [st EXCEPT !.ts[st.me].stack = Tail(@), !.ret = val]

\* the stack is inside the try block of end_game
InEndGame(stack) == \E k \in DOMAIN stack : stack[k].f = "end_game" /\ stack[k].pc # 0

\* an exception (a CancelledError, a KeyError) leaves the task: no coroutine of the
\* stack catches it before timer_task or the framework, and the finally block of
\* end_game removes the match from the registry on the way
Raise(st) ==
    [st EXCEPT !.reg = @ /\ ~InEndGame(st.ts[st.me].stack),
               !.ts[st.me].stack = <<>>,
               !.halt = TRUE]

\* a cancel() that leaves the task as it is
cancel_Ignored(t) == t

\* Task.cancel(): a timer task suspended in asyncio.sleep ends there, timer_task
\* swallowing the CancelledError; a task suspended elsewhere, or the running task
\* itself, gets the CancelledError at its next suspension point
cancel(t) ==
    IF Head(t.stack).f = "timer_task" THEN [t EXCEPT !.stack = <<>>]
    ELSE [t EXCEPT !.cancel = TRUE]

\* if game.current_timer_task and not game.current_timer_task.done(): cancel()
cancel_current(ts) ==
    [i \in DOMAIN ts |-> IF ts[i].current /\ ts[i].stack # <<>> THEN cancel(ts[i]) ELSE ts[i]]

start_timer(st, next_phase_func) ==
    [st EXCEPT !.ts = Append([i \in DOMAIN @ |-> [cancel_current(@)[i] EXCEPT !.current = FALSE]],
                             [create_task("timer", Frame("timer_task", 95, None, next_phase_func, <<>>))
                                 EXCEPT !.current = TRUE]),
               !.g.current_timer_task = 1]

\* the body of timer_task after the sleep
timer_task(st) ==
    IF st.reg THEN TailCall(st, Enter(Top(st).r)) ELSE Return(st, FALSE)

-----------------------------------------------------------------------------
(* cogs/game_flow.py: the phases.                                          *)

\* config.MAX_GAME_NIGHTS
MAX_GAME_NIGHTS == 2

start_night(st) ==
    IF Top(st).pc = 0
    THEN Await([st EXCEPT !.g.current_phase = "night",
                          !.g.current_night = @ + 1,
                          !.g.sheriff_shot_this_day = FALSE,
                          !.ts[st.me].nights = @ + 1,
                          !.rp.handled = 0], 187)
    ELSE Return(start_timer(st, "end_night"), FALSE)

force_night(st) == TailCall([st EXCEPT !.ts = cancel_current(@)], Enter("start_night"))

\* end_night from line 199 on, out being what resolve_night_actions left and returned
night_resolved(st, out) ==
    IF out.raised THEN Raise([st EXCEPT !.g = out.g])
    ELSE IF out.res.game_over
    THEN Call([st EXCEPT !.g = out.g], 199, EndGame(out.end_game_call[1].title,
                                                  out.end_game_call[1].winners))
    ELSE IF out.g.pending_resolution
    THEN TailCall([st EXCEPT !.g = out.g], Enter("resolve_pending_endgame"))
    ELSE Goto([st EXCEPT !.g = out.g,
                         !.ts[st.me].stack[1].q =
                             [killed |-> out.res.killed_players,
                              revived |-> out.res.revived_players,
                              dm |-> \E p \in Players(out.g) : out.res.dm_messages[p] # <<>>]],
              202)

end_night(st, rnd) ==
    LET fr == Top(st) IN
    CASE fr.pc = 0 ->
            IF ~is_night(st.g) THEN Return(st, FALSE)
            ELSE Await([st EXCEPT !.rp.handled = @ + 1], 197)
      [] fr.pc = 197 ->
            night_resolved(st, resolve_night_actions(st.g, deaths_and_revivals(st.g, rnd.conf),
                                                     rnd.clue))
      [] fr.pc = 199 -> Return(st, FALSE)
      [] fr.pc = 202 ->
            IF fr.q.killed = <<>> THEN Goto(st, 208)
            ELSE Call([st EXCEPT !.g.killers[Head(fr.q.killed).victim] = Head(fr.q.killed).killer,
                                 !.g.successful_major_actions =
                                     IF Head(fr.q.killed).cause = "witch"
                                     THEN Append(@, [actor |-> Head(fr.q.killed).killer,
                                                     action |-> "kill",
                                                     target |-> Head(fr.q.killed).victim])
                                     ELSE @,
                                 !.ts[st.me].stack[1].q.killed = Tail(@)],
                      207,
                      Frame("process_death", 0, Head(fr.q.killed).victim,
                            Head(fr.q.killed).cause, <<>>))
      [] fr.pc = 207 -> IF ~st.reg THEN Return(st, FALSE) ELSE Goto(st, 202)
      [] fr.pc = 208 -> IF fr.q.dm THEN Await(st, 211) ELSE Goto(st, 211)
      [] fr.pc = 211 ->
            Call([st EXCEPT !.g.successful_major_actions =
                                @ \o [k \in DOMAIN fr.q.revived |->
                                        [actor |-> <<fr.q.revived[k][2]>>, action |-> "revive",
                                         target |-> fr.q.revived[k][1]]]],
                 213, Enter("check_game_end"))
      [] fr.pc = 213 -> IF st.ret THEN Return(st, TRUE) ELSE Await(st, 232)
      [] fr.pc = 232 -> TailCall(st, Enter("start_day_discussion"))

start_day_discussion(st) ==
    IF Top(st).pc = 0
    THEN Await([st EXCEPT !.g.current_phase = "day_discussion",
                          !.g.current_day = @ + 1,
                          !.rp.handled = 0], 241)
    ELSE Return(start_timer(st, "start_day_voting"), FALSE)

start_day_voting(st) ==
    IF Top(st).pc = 0
    THEN Await([st EXCEPT !.g = [clear_daily_states(@) EXCEPT !.current_phase = "day_voting"],
                          !.rp.handled = 0], 250)
    ELSE Return(start_timer(st, "end_day_voting"), FALSE)

end_day_voting(st) ==
    LET fr == Top(st) IN
    CASE fr.pc = 0 ->
            IF ~is_day_voting(st.g) THEN Return(st, FALSE)
            ELSE Await([st EXCEPT !.rp.handled = @ + 1], 256)
      [] fr.pc = 256 -> Call(st, 257, Enter("process_lynch"))
      [] fr.pc = 257 -> Await([st EXCEPT !.ts[st.me].stack[1].q = <<st.ret>>], 260)
      [] fr.pc = 260 ->
            IF fr.q = <<TRUE>> THEN Return(st, FALSE)
            ELSE Call(st, 261, Enter("check_game_end"))
      [] fr.pc = 261 ->
            IF st.ret THEN Return(st, TRUE)
            ELSE IF st.g.current_night >= MAX_GAME_NIGHTS
            THEN TailCall(st, Frame("check_seventh_day_win", 0, None, "", FALSE))
            ELSE TailCall(st, Enter("start_night"))

\* handle_sheriff_shot as it would be were the dead of the town left out of the
\* winners of the shot at the Assassino Alfa
handle_sheriff_shot_LivingWinners(st) ==
    LET fr == Top(st) IN
    CASE fr.pc = 0 ->
            IF st.g.sheriff_revealed
            THEN Goto([st EXCEPT !.g.sheriff_shots_fired = @ + 1,
                                 !.g.sheriff_shot_this_day = TRUE], 275)
            ELSE Await([st EXCEPT !.g.sheriff_shots_fired = @ + 1,
                                  !.g.sheriff_shot_this_day = TRUE,
                                  !.g.sheriff_revealed = TRUE], 275)
      [] fr.pc = 275 ->
            IF isinstance(st.g.role[fr.p], {"AssassinoAlfa"})
            THEN TailCall(st, EndGame("Vitoria da Cidade!",
                                      faction_members(st.g, "Cidade")
                                          \cap get_alive_players_states(st.g)))
            ELSE IF isinstance(st.g.role[fr.p], {"Prefeito"})
            THEN TailCall(st, EndGame("Vitoria dos Viloes!", faction_members(st.g, "Viloes")))
            ELSE Call([st EXCEPT !.g.killers[fr.p] = <<fr.q>>], 286,
                      Frame("process_death", 0, fr.p, "shot_by_sheriff", <<>>))
      [] fr.pc = 286 -> Call(st, 287, Enter("check_game_end"))
      [] fr.pc = 287 -> Return(st, FALSE)

\* handle_sheriff_shot from line 270 on, p being the target and q the sheriff
handle_sheriff_shot(st) ==
    LET fr == Top(st) IN
    CASE fr.pc = 0 ->
            IF st.g.sheriff_revealed
            THEN Goto([st EXCEPT !.g.sheriff_shots_fired = @ + 1,
                                 !.g.sheriff_shot_this_day = TRUE], 275)
            ELSE Await([st EXCEPT !.g.sheriff_shots_fired = @ + 1,
                                  !.g.sheriff_shot_this_day = TRUE,
                                  !.g.sheriff_revealed = TRUE], 275)
      [] fr.pc = 275 ->
            IF isinstance(st.g.role[fr.p], {"AssassinoAlfa"})
            THEN TailCall(st, EndGame("Vitoria da Cidade!", faction_members(st.g, "Cidade")))
            ELSE IF isinstance(st.g.role[fr.p], {"Prefeito"})
            THEN TailCall(st, EndGame("Vitoria dos Viloes!", faction_members(st.g, "Viloes")))
            ELSE Call([st EXCEPT !.g.killers[fr.p] = <<fr.q>>], 286,
                      Frame("process_death", 0, fr.p, "shot_by_sheriff", <<>>))
      [] fr.pc = 286 -> Call(st, 287, Enter("check_game_end"))
      [] fr.pc = 287 -> Return(st, FALSE)

\* process_death as it would be without the return for a player already dead
process_death_Unguarded(st) ==
    LET fr == Top(st)
        g == st.g
        target == fr.p
    IN
    CASE fr.pc = 0 ->
            IF ~get_player_state_by_id(g, target) THEN Return(st, FALSE)
            ELSE IF isinstance(g.role[target], {"Fofoqueiro"})
                    /\ g.fofoqueiro_marked_target_id # None
            THEN Await([st EXCEPT !.g = [kill(g, target) EXCEPT
                                            !.death_reasons[target] = fr.r,
                                            !.first_death_id = IF @ = None THEN target ELSE @]],
                       299)
            ELSE Goto([st EXCEPT !.g = [kill(g, target) EXCEPT
                                            !.death_reasons[target] = fr.r,
                                            !.first_death_id = IF @ = None THEN target ELSE @]],
                      299)
      [] fr.pc = 299 ->
            IF isinstance(g.role[target], {"AssassinoJunior"})
               /\ g.junior_marked_target_id # None
            THEN Await([st EXCEPT !.ts[st.me].stack[1].q = g.junior_marked_target_id], 302)
            ELSE Goto(st, 304)
      [] fr.pc = 302 ->
            Call(st, 303, Frame("process_death", 0, fr.q, "killed_by_junior_curse", <<>>))
      [] fr.pc = 303 -> Return(st, FALSE)
      [] fr.pc = 304 ->
            IF g.lovers # <<>> /\ target \in {g.lovers[1], g.lovers[2]}
            THEN Await([st EXCEPT !.ts[st.me].stack[1].q =
                            IF target = g.lovers[2] THEN g.lovers[1] ELSE g.lovers[2]], 308)
            ELSE Goto(st, 310)
      [] fr.pc = 308 -> Call(st, 303, Frame("process_death", 0, fr.q, "heartbreak", <<>>))
      [] fr.pc = 310 ->
            IF g.headhunter_info # <<>> /\ g.headhunter_info[1].target_id = target
               /\ fr.r # "lynched"
            THEN Await([st EXCEPT !.g.role[g.headhunter_info[1].hunter_id] = "CidadaoComum",
                                  !.g.headhunter_info = <<>>], 316)
            ELSE Goto(st, 316)
      [] fr.pc = 316 -> Call(st, 303, Frame("check_game_end", 0, target, "", <<>>))

\* process_death of player p for reason r
process_death(st) ==
    LET fr == Top(st)
        g == st.g
        target == fr.p
    IN
    CASE fr.pc = 0 ->
            IF ~get_player_state_by_id(g, target) \/ ~g.is_alive[target] THEN Return(st, FALSE)
            ELSE IF isinstance(g.role[target], {"Fofoqueiro"})
                    /\ g.fofoqueiro_marked_target_id # None
            THEN Await([st EXCEPT !.g = [kill(g, target) EXCEPT
                                            !.death_reasons[target] = fr.r,
                                            !.first_death_id = IF @ = None THEN target ELSE @]],
                       299)
            ELSE Goto([st EXCEPT !.g = [kill(g, target) EXCEPT
                                            !.death_reasons[target] = fr.r,
                                            !.first_death_id = IF @ = None THEN target ELSE @]],
                      299)
      [] fr.pc = 299 ->
            IF isinstance(g.role[target], {"AssassinoJunior"})
               /\ g.junior_marked_target_id # None
            THEN Await([st EXCEPT !.ts[st.me].stack[1].q = g.junior_marked_target_id], 302)
            ELSE Goto(st, 304)
      [] fr.pc = 302 ->
            Call(st, 303, Frame("process_death", 0, fr.q, "killed_by_junior_curse", <<>>))
      [] fr.pc = 303 -> Return(st, FALSE)
      [] fr.pc = 304 ->
            IF g.lovers # <<>> /\ target \in {g.lovers[1], g.lovers[2]}
            THEN Await([st EXCEPT !.ts[st.me].stack[1].q =
                            IF target = g.lovers[2] THEN g.lovers[1] ELSE g.lovers[2]], 308)
            ELSE Goto(st, 310)
      [] fr.pc = 308 -> Call(st, 303, Frame("process_death", 0, fr.q, "heartbreak", <<>>))
      [] fr.pc = 310 ->
            IF g.headhunter_info # <<>> /\ g.headhunter_info[1].target_id = target
               /\ fr.r # "lynched"
            THEN Await([st EXCEPT !.g.role[g.headhunter_info[1].hunter_id] = "CidadaoComum",
                                  !.g.headhunter_info = <<>>], 316)
            ELSE Goto(st, 316)
      [] fr.pc = 316 -> Call(st, 303, Frame("check_game_end", 0, target, "", <<>>))

\* check_game_end, p being the victim it is given (None without one)

\* check_game_end as it would be were the villains to need more than parity
check_game_end_StrictParity(st) ==
    LET fr == Top(st)
        g == st.g
        alive_players == get_alive_players_states(g)
        villains_alive == {p \in alive_players : faction(g.role[p]) = "Viloes"}
        prefeito_state == Autores(g, {"Prefeito"})
    IN
    CASE fr.pc = 338 -> Call(st, 347, Enter("start_night"))
      [] fr.pc = 347 -> Return(st, TRUE)
      [] fr.pc = 0 ->
            IF ~st.reg THEN Return(st, TRUE)
            ELSE IF fr.p # None /\ g.headhunter_info # <<>>
                    /\ fr.p = g.headhunter_info[1].target_id
                    /\ g.death_reasons[fr.p] = "lynched"
            THEN Call(st, 347, EndGame("Vitoria do Cacador de Cabecas!",
                                  {g.headhunter_info[1].hunter_id}))
            ELSE IF alive_players = {}
            THEN Call(st, 347, EndGame("Empate catastrofico!", {}))
            ELSE IF villains_alive = {}
            THEN IF prefeito_state \cap alive_players # {}
                 THEN Call(st, 347, EndGame("Vitoria da Cidade!", faction_members(g, "Cidade")))
                 ELSE IF prefeito_state # {}
                         /\ \E p \in alive_players :
                               \/ isinstance(g.role[p], {"Anjo"}) /\ ~g.angel_revive_used
                               \/ isinstance(g.role[p], {"Bruxo"}) /\ ~g.witch_potion_used
                 THEN Await([st EXCEPT !.g.pending_resolution = TRUE], 338)
                 ELSE Call(st, 347, Frame("check_seventh_day_win", 0, None, "", TRUE))
            ELSE IF Cardinality(villains_alive)
                       > Cardinality(alive_players) - Cardinality(villains_alive)
            THEN Call(st, 347, EndGame("Vitoria dos Viloes!", villains_alive))
            ELSE Return(st, FALSE)

check_game_end(st) ==
    LET fr == Top(st)
        g == st.g
        alive_players == get_alive_players_states(g)
        villains_alive == {p \in alive_players : faction(g.role[p]) = "Viloes"}
        prefeito_state == Autores(g, {"Prefeito"})
    IN
    CASE fr.pc = 338 -> Call(st, 347, Enter("start_night"))
      [] fr.pc = 347 -> Return(st, TRUE)
      [] fr.pc = 0 ->
            IF ~st.reg THEN Return(st, TRUE)
            ELSE IF fr.p # None /\ g.headhunter_info # <<>>
                    /\ fr.p = g.headhunter_info[1].target_id
                    /\ g.death_reasons[fr.p] = "lynched"
            THEN Call(st, 347, EndGame("Vitoria do Cacador de Cabecas!",
                                  {g.headhunter_info[1].hunter_id}))
            ELSE IF alive_players = {}
            THEN Call(st, 347, EndGame("Empate catastrofico!", {}))
            ELSE IF villains_alive = {}
            THEN IF prefeito_state \cap alive_players # {}
                 THEN Call(st, 347, EndGame("Vitoria da Cidade!", faction_members(g, "Cidade")))
                 ELSE IF prefeito_state # {}
                         /\ \E p \in alive_players :
                               \/ isinstance(g.role[p], {"Anjo"}) /\ ~g.angel_revive_used
                               \/ isinstance(g.role[p], {"Bruxo"}) /\ ~g.witch_potion_used
                 THEN Await([st EXCEPT !.g.pending_resolution = TRUE], 338)
                 ELSE Call(st, 347, Frame("check_seventh_day_win", 0, None, "", TRUE))
            ELSE IF Cardinality(villains_alive)
                       >= Cardinality(alive_players) - Cardinality(villains_alive)
            THEN Call(st, 347, EndGame("Vitoria dos Viloes!", villains_alive))
            ELSE Return(st, FALSE)

resolve_pending_endgame(st) ==
    IF Autores(st.g, {"Prefeito"}) \cap get_alive_players_states(st.g) # {}
    THEN TailCall([st EXCEPT !.g.pending_resolution = FALSE], EndGame("Vitoria da Cidade!",
                                                                faction_members(st.g, "Cidade")))
    ELSE TailCall([st EXCEPT !.g.pending_resolution = FALSE],
                  Frame("check_seventh_day_win", 0, None, "", TRUE))

\* check_seventh_day_win, q being is_resolution
check_seventh_day_win(st) ==
    LET g == st.g
        alive_players == get_alive_players_states(g)
    IN
    IF /\ \E p \in alive_players : isinstance(g.role[p], {"Prefeito"})
       /\ \E p \in alive_players : faction(g.role[p]) = "Viloes"
       /\ ~Top(st).q
    THEN TailCall(st, Enter("seventh_day_confrontation"))
    ELSE IF g.lovers # <<>> /\ g.is_alive[g.lovers[1]] /\ g.is_alive[g.lovers[2]]
    THEN TailCall(st, EndGame("Vitoria dos Amantes!",
                          {g.lovers[1], g.lovers[2]} \cup Autores(g, {"Cupido"})))
    ELSE IF \E p \in alive_players : isinstance(g.role[p], {"Corruptor"})
    THEN TailCall(st, EndGame("Vitoria do Corruptor!",
                          {CHOOSE p \in alive_players : isinstance(g.role[p], {"Corruptor"})}))
    ELSE IF \E p \in Players(g) : faction(g.role[p]) = "Cidade" /\ g.is_alive[p]
    THEN TailCall(st, EndGame("Vitoria da Cidade!",
                          {p \in alive_players : faction(g.role[p]) = "Cidade"}))
    ELSE TailCall(st, EndGame("Empate por Impasse!", {}))

seventh_day_confrontation(st) ==
    LET fr == Top(st) IN
    CASE fr.pc = 0 -> Await(st, 384)
      [] fr.pc = 384 -> Call(st, 385, Enter("sheriff_showdown_loop"))
      [] fr.pc = 385 ->
            IF st.ret \/ ~st.reg THEN Return(st, FALSE)
            ELSE TailCall(st, Enter("villain_final_attack"))

\* sheriff_showdown_loop, p being the sheriff, q the targets offered and then the
\* one picked, and view the answer to the prompt (None when it times out)
sheriff_showdown_loop(st, view) ==
    LET fr == Top(st)
        g == st.g
        xerife_state == {p \in get_alive_players_states(g) : isinstance(g.role[p], {"Xerife"})}
        max_shots == IF Cardinality(Players(g)) <= 6 THEN 1 ELSE 2
    IN
    CASE fr.pc = 0 ->
            IF xerife_state = {} \/ g.sheriff_shots_fired >= max_shots THEN Return(st, FALSE)
            ELSE Goto([st EXCEPT !.ts[st.me].stack[1].p = CHOOSE x \in xerife_state : TRUE], 392)
      [] fr.pc = 392 ->
            IF g.sheriff_shots_fired < max_shots /\ st.reg
               /\ get_alive_players_states(g) \ {fr.p} # {}
            THEN Await([st EXCEPT !.ts[st.me].stack[1].q = get_alive_players_states(g) \ {fr.p}],
                       398)
            ELSE Return(st, ~st.reg)
      [] fr.pc = 398 ->
            IF view = None THEN Await([st EXCEPT !.g.sheriff_shots_fired = @ + 1], 392)
            ELSE Await([st EXCEPT !.g.sheriff_shots_fired = @ + 1,
                                  !.ts[st.me].stack[1].q = view], 402)
      [] fr.pc = 402 -> Call(st, 403, Frame("handle_sheriff_shot", 0, fr.q, "", fr.p))
      [] fr.pc = 403 -> IF ~st.reg THEN Return(st, TRUE) ELSE Await(st, 392)

\* villain_final_attack, q and view as in sheriff_showdown_loop
villain_final_attack(st, view) ==
    LET fr == Top(st)
        g == st.g
        viloes_vivos == {p \in get_alive_players_states(g) : faction(g.role[p]) = "Viloes"}
        targets == {p \in get_alive_players_states(g) : faction(g.role[p]) = "Cidade"}
    IN
    CASE fr.pc = 0 ->
            IF viloes_vivos = {}
            THEN TailCall(st, Frame("check_seventh_day_win", 0, None, "", TRUE))
            ELSE IF targets = {} THEN TailCall(st, EndGame("Vitoria dos Viloes!", viloes_vivos))
            ELSE Await([st EXCEPT !.ts[st.me].stack[1].q = targets], 416)
      [] fr.pc = 416 ->
            IF view = None THEN TailCall(st, EndGame("Vitoria da Cidade!", faction_members(g, "Cidade")))
            ELSE Await([st EXCEPT !.ts[st.me].stack[1].q = view], 419)
      [] fr.pc = 419 ->
            IF isinstance(g.role[fr.q], {"Prefeito"})
            THEN TailCall(st, EndGame("Vitoria dos Viloes!", viloes_vivos))
            ELSE TailCall(st, EndGame("Vitoria da Cidade!", faction_members(g, "Cidade")))

\* end_game, r being the title and q the error flag; the announcement of the winners
\* is handed to a task of its own at line 465
end_game(st) ==
    LET fr == Top(st) IN
    CASE fr.pc = 0 ->
            IF ~st.reg /\ ~fr.q THEN Return(st, FALSE)
            ELSE Await([st EXCEPT !.rp.titles = Append(@, fr.r),
                             !.rp.winners = Append(@, fr.p)], 486)
      [] fr.pc = 486 ->
            Await([st EXCEPT !.g.current_phase = "finished",
                             !.ts = IF st.g.current_timer_task # None
                                    THEN cancel_current(@) ELSE @], 494)
      [] fr.pc = 494 ->
            Return([st EXCEPT !.rp.ranked = IF fr.q THEN @ ELSE @ + 1, !.reg = FALSE], FALSE)

-----------------------------------------------------------------------------
(* core/action_resolver.py: the day's vote.                                *)

\* lynch_weight as it would be were the decree to give no vote a greater weight
lynch_weight_Flat(g, voter_id) == 1

lynch_weight(g, voter_id) ==
    IF ~g.decreto_active \/ ~get_player_state_by_id(g, voter_id) THEN 1
    ELSE IF isinstance(g.role[voter_id], {"Prefeito"}) THEN 3
    ELSE IF faction(g.role[voter_id]) = "Cidade" THEN 2 ELSE 1

vote_counts(g, votes) ==
    FoldLeft(LAMBDA acc, e :
                IF DictHas(acc, e.val)
                THEN [acc EXCEPT ![DictIdx(acc, e.val)].val = @ + lynch_weight(g, e.key)]
                ELSE Append(acc, [key |-> e.val, val |-> lynch_weight(g, e.key)]),
             <<>>, votes)

\* lynched_candidate as it would be were a tie among the leaders to go to the first
\* of them
lynched_candidate_FirstLeader(g, counts) ==
    LET majority_needed == (Cardinality(get_alive_players_states(g)) \div 2) + 1
        lynched_candidates ==
            {i \in DOMAIN counts : \A j \in DOMAIN counts : counts[j].val <= counts[i].val}
    IN
    IF Cardinality(g.day_skip_votes) >= majority_needed THEN None
    ELSE IF counts = <<>> THEN None
    ELSE IF \A i \in DOMAIN counts : counts[i].val < majority_needed THEN None
    ELSE counts[CHOOSE i \in lynched_candidates : \A j \in lynched_candidates : i <= j].key

\* the player the tally of vote_counts lynches, None when it lynches nobody
lynched_candidate(g, counts) ==
    LET majority_needed == (Cardinality(get_alive_players_states(g)) \div 2) + 1
        lynched_candidates ==
            {i \in DOMAIN counts : \A j \in DOMAIN counts : counts[j].val <= counts[i].val}
    IN
    IF Cardinality(g.day_skip_votes) >= majority_needed THEN None
    ELSE IF counts = <<>> THEN None
    ELSE IF \A i \in DOMAIN counts : counts[i].val < majority_needed THEN None
    ELSE IF Cardinality(lynched_candidates) # 1 THEN None
    ELSE counts[CHOOSE i \in lynched_candidates : TRUE].key

\* a shuffle that may also hand every voter one and the same of the submitted targets
Shuffles_Rewritten(votes) ==
    {[i \in DOMAIN votes |-> [key |-> votes[i].key, val |-> votes[f[i]].val]] :
        f \in Permutations(DOMAIN votes)}
    \cup {[i \in DOMAIN votes |-> [key |-> votes[i].key, val |-> votes[j].val]] :
             j \in DOMAIN votes}

\* random.shuffle(target_ids): the same voters, their targets in any order
Shuffles(votes) ==
    {[i \in DOMAIN votes |-> [key |-> votes[i].key, val |-> votes[f[i]].val]] :
        f \in Permutations(DOMAIN votes)}

\* process_lynch, votes being the day's votes after the shuffle of a fraud; it
\* returns results["game_over"]
process_lynch(st, votes) ==
    LET fr == Top(st)
        g == st.g
        lynched == lynched_candidate(g, vote_counts(g, votes))
    IN
    CASE fr.pc = 0 ->
            IF lynched = None THEN Return(st, FALSE)
            ELSE IF isinstance(g.role[lynched], {"Prefeito"}) /\ ~g.prefeito_saved_once
            THEN Return([st EXCEPT !.g.prefeito_saved_once = TRUE], FALSE)
            ELSE Call([st EXCEPT !.ts[st.me].stack[1].p = lynched], 395,
                      Frame("process_death", 0, lynched, "lynched", <<>>))
      [] fr.pc = 395 ->
            IF isinstance(g.role[fr.p], {"Palhaco"})
            THEN Call(st, 399, EndGame("Vitoria do Palhaco!", {fr.p}))
            ELSE Return(st, FALSE)
      [] fr.pc = 399 -> Return(st, TRUE)

-----------------------------------------------------------------------------
(* cogs/actions.py: the commands of the day.  Each operator gives the      *)
(* match after the part of the handler that runs before its first          *)
(* suspension, and the frame the handler goes on from (none when it is     *)
(* rejected or has nothing left to do).                                    *)

Handled(g, start) == [g |-> g, start |-> start]

iniciar_jogo(g, author) ==
    IF g.current_phase # "preparing" \/ author # g.game_master THEN Handled(g, <<>>)
    ELSE Handled(g, <<Enter("start_night")>>)

decreto(g, author) ==
    IF ~(check_game_phase(g, {"day_voting"}) /\ check_player_state(g, author, TRUE, "decreto")
         /\ check_role(g, author, {"Prefeito"})) THEN Handled(g, <<>>)
    ELSE IF g.decreto_used THEN Handled(g, <<>>)
    ELSE Handled([g EXCEPT !.decreto_used = TRUE, !.decreto_active = TRUE,
                           !.sabotage_blocked = TRUE], <<>>)

sabotar(g, author) ==
    IF ~(check_game_phase(g, {"day_discussion", "day_voting"})
         /\ check_player_state(g, author, TRUE, "sabotar")
         /\ check_role(g, author, {"AssassinoAlfa"})) THEN Handled(g, <<>>)
    ELSE IF g.sabotage_blocked \/ g.sabotage_used THEN Handled(g, <<>>)
    ELSE Handled([g EXCEPT !.sabotage_used = TRUE], <<Enter("force_night")>>)

disparar(g, author, jogador) ==
    LET target_member == find_player_by_name(g, jogador)
        max_shots == IF Cardinality(Players(g)) <= 6 THEN 1 ELSE 2
    IN
    IF ~(check_game_phase(g, {"day_discussion", "day_voting"})
         /\ check_player_state(g, author, TRUE, "disparar")
         /\ check_role(g, author, {"Xerife"})) THEN Handled(g, <<>>)
    ELSE IF g.sheriff_shot_this_day \/ g.sheriff_shots_fired >= max_shots THEN Handled(g, <<>>)
    ELSE IF target_member = None \/ target_member = author THEN Handled(g, <<>>)
    ELSE Handled(g, <<Frame("handle_sheriff_shot", 0, target_member, "", author)>>)

votar(g, author, jogador) ==
    LET target_member == find_player_by_name(g, jogador) IN
    IF ~(check_game_phase(g, {"day_voting"}) /\ check_player_state(g, author, TRUE, "votar")
         /\ check_role(g, author, {})) THEN Handled(g, <<>>)
    ELSE IF target_member = None THEN Handled(g, <<>>)
    ELSE Handled([g EXCEPT !.day_skip_votes = @ \ {author},
                           !.day_votes =
                               IF DictHas(@, author)
                               THEN [@ EXCEPT ![DictIdx(@, author)].val = target_member]
                               ELSE Append(@, [key |-> author, val |-> target_member])], <<>>)

pular(g, author) ==
    IF ~(check_game_phase(g, {"day_voting"}) /\ check_player_state(g, author, TRUE, "pular")
         /\ check_role(g, author, {})) THEN Handled(g, <<>>)
    ELSE Handled([g EXCEPT !.day_votes = SelectSeq(@, LAMBDA e : e.key # author),
                           !.day_skip_votes = @ \cup {author}],
                 <<Enter("pular")>>)

\* pular from line 469 on
pular_majority(st) ==
    IF Cardinality(st.g.day_skip_votes)
          >= (Cardinality(get_alive_players_states(st.g)) \div 2) + 1
    THEN TailCall([st EXCEPT !.ts = cancel_current(@)], Enter("end_day_voting"))
    ELSE Return(st, FALSE)

-----------------------------------------------------------------------------
(* A match from /iniciar to its end: the commands, the timers and the      *)
(* tasks they run.                                                         *)

\* the command handlers that may be in flight at a time
MaxInFlight == 1

\* the night actions the queue may hold at a time
FlowQueue == 1

KindOrder(kind) ==
    CASE kind = "iniciar" -> 1 [] kind = "sabotar" -> 2 [] kind = "disparar" -> 3
      [] kind = "pular" -> 4 [] OTHER -> 5

FlowCast == <<"Prefeito", "Xerife", "Anjo", "AssassinoAlfa", "AssassinoJunior", "Bruxo">>

\* the names given to /eliminar and /reviver, and to /disparar and /votar
FlowAlvos == {1, 4}
FlowNomes == {1, 5}

NoPick ==
    [conf |-> <<>>, clue |-> [killer |-> None, innocent |-> None], view |-> None,
     votes |-> <<>>]

\* what the step that goes on from frame fr can draw: the picks of random.choice in
\* the night's resolution, the answer to a showdown prompt, the shuffle of a fraud
Picks(g, fr) ==
    IF fr.f = "end_night" /\ fr.pc = 197
    THEN UNION {{[NoPick EXCEPT !.conf = c, !.clue = [killer |-> ki[1], innocent |-> ki[2]]] :
                    ki \in clue_choices(deaths_and_revivals(g, c))} : c \in ConfChoices(g)}
    ELSE IF fr.f \in {"sheriff_showdown_loop", "villain_final_attack"} /\ fr.pc \in {398, 416}
    THEN {[NoPick EXCEPT !.view = v] : v \in fr.q \cup {None}}
    ELSE IF fr.f = "end_day_voting" /\ fr.pc = 256
    THEN {[NoPick EXCEPT !.votes = v] :
             v \in IF g.fraud_active THEN Shuffles(g.day_votes) ELSE {g.day_votes}}
    ELSE {NoPick}

\* the running task goes on in the coroutine on top of its stack
Exec(st, rnd) ==
    LET f == Top(st).f IN
    CASE f = "timer_task" -> timer_task(st)
      [] f = "start_night" -> start_night(st)
      [] f = "force_night" -> force_night(st)
      [] f = "end_night" -> end_night(st, rnd)
      [] f = "start_day_discussion" -> start_day_discussion(st)
      [] f = "start_day_voting" -> start_day_voting(st)
      [] f = "end_day_voting" -> end_day_voting(st)
      [] f = "handle_sheriff_shot" -> handle_sheriff_shot(st)
      [] f = "process_death" -> process_death(st)
      [] f = "check_game_end" -> check_game_end(st)
      [] f = "resolve_pending_endgame" -> resolve_pending_endgame(st)
      [] f = "check_seventh_day_win" -> check_seventh_day_win(st)
      [] f = "seventh_day_confrontation" -> seventh_day_confrontation(st)
      [] f = "sheriff_showdown_loop" -> sheriff_showdown_loop(st, rnd.view)
      [] f = "villain_final_attack" -> villain_final_attack(st, rnd.view)
      [] f = "end_game" -> end_game(st)
      [] f = "process_lynch" -> process_lynch(st, rnd.votes)
      [] f = "pular" -> pular_majority(st)

\* the running task runs to its next suspension point or to its end
RECURSIVE Run(_, _)
Run(st, rnd) ==
    IF st.halt \/ st.ts[st.me].stack = <<>> THEN st ELSE Run(Exec(st, rnd), rnd)

\* task i is given the loop
Machine(i) ==
    [g |-> game, reg |-> registry, ts |-> tasks, rp |-> report, me |-> i, ret |-> FALSE,
     halt |-> FALSE]

\* the step of a task is done: the tasks that have ended leave the loop
Commit(st) ==
    /\ game' = st.g
    /\ registry' = st.reg
    /\ tasks' = SelectSeq(st.ts, LAMBDA t : t.stack # <<>>)
    /\ report' = st.rp

NoFlowReport == [titles |-> <<>>, winners |-> <<>>, ranked |-> 0, handled |-> 0]

InitFlow ==
    /\ game = NewGame(FlowCast)
    /\ registry = TRUE
    /\ tasks = <<>>
    /\ report = NoFlowReport

\* the loop holds the tasks in the order of their kinds (the order of two tasks
\* plays no part in what they do); timer tasks come last, in the order of creation
InsertTasks(ts, new) ==
    IF new = <<>> THEN ts
    ELSE SelectSeq(ts, LAMBDA t : t.kind # "timer" /\ KindOrder(t.kind) <= KindOrder(new[1].kind))
         \o new
         \o SelectSeq(ts, LAMBDA t : t.kind = "timer" \/ KindOrder(t.kind) > KindOrder(new[1].kind))

\* a command reaches the bot: game_check finds the match, the checks and the handler
\* run up to the handler's first suspension
Command(kind, out) ==
    /\ registry
    /\ Cardinality({i \in DOMAIN tasks : tasks[i].kind = kind}) + Len(out.start) <= MaxInFlight
    /\ Len(out.g.night_actions) <= FlowQueue
    /\ game' = out.g
    /\ tasks' = InsertTasks(tasks, [k \in DOMAIN out.start |-> create_task(kind, out.start[k])])
    /\ UNCHANGED <<registry, report>>

Iniciar == \E a \in FlowNomes : Command("iniciar", iniciar_jogo(game, a))

CmdEliminar ==
    \E a \in Autores(game, {"AssassinoAlfa", "Bruxo"}), j \in FlowAlvos :
        Command("eliminar", Handled(eliminar(game, a, j), <<>>))

CmdReviver ==
    \E a \in Autores(game, {"Anjo"}), j \in FlowAlvos :
        Command("reviver", Handled(reviver(game, a, j), <<>>))

Decreto == \E a \in Autores(game, {"Prefeito"}) : Command("decreto", decreto(game, a))

Sabotar == \E a \in Autores(game, {"AssassinoAlfa"}) : Command("sabotar", sabotar(game, a))

Disparar ==
    \E a \in Autores(game, {"Xerife"}), j \in FlowNomes :
        Command("disparar", disparar(game, a, j))

Votar == \E a \in FlowNomes, j \in FlowNomes : Command("votar", votar(game, a, j))

Pular == \E a \in FlowNomes : Command("pular", pular(game, a))

\* the sleep of a timer task ends; a cancellation already issued is delivered first
TimerExpires ==
    \E i \in DOMAIN tasks :
        /\ Head(tasks[i].stack).f = "timer_task"
        /\ \A j \in DOMAIN tasks : ~tasks[j].cancel
        /\ Commit(Run(Machine(i), NoPick))

\* the await a task is suspended in completes
Resume ==
    \E i \in DOMAIN tasks :
        /\ Head(tasks[i].stack).f # "timer_task"
        /\ ~tasks[i].cancel
        /\ \E rnd \in Picks(game, Head(tasks[i].stack)) : Commit(Run(Machine(i), rnd))

\* the CancelledError reaches a cancelled task in the await it is suspended in
Cancelled ==
    \E i \in DOMAIN tasks :
        /\ tasks[i].cancel
        /\ Commit(Raise(Machine(i)))

NextFlow ==
    \/ Iniciar \/ CmdEliminar \/ CmdReviver \/ Sabotar \/ Disparar
    \/ Votar \/ Pular \/ Decreto
    \/ TimerExpires \/ Resume \/ Cancelled

SpecFlow == InitFlow /\ [][NextFlow]_vars

-----------------------------------------------------------------------------
(* The end of a day's vote: process_lynch on the votes of a seven-player   *)
(* match whose cupid died in the first night, and the phases that follow.  *)

DayCast ==
    <<"Prefeito", "Xerife", "Anjo", "Detetive", "GuardaCostas", "AssassinoJunior", "Cupido">>

\* the cast of a match whose fourth player is the accomplice, who may send /fraudar
FraudCast ==
    <<"Prefeito", "Xerife", "Anjo", "Cumplice", "GuardaCostas", "AssassinoJunior", "Cupido">>

\* the cast of a match that is in its last day, the seventh player a citizen
LastCast ==
    <<"Prefeito", "Xerife", "Anjo", "AssassinoAlfa", "GuardaCostas", "AssassinoJunior",
      "CidadaoComum">>

\* the players the votes of the day name
DayAlvos == {1, 2, 6}

\* the bonds made before the day: none; or the sheriff and the junior made lovers by
\* the cupid, a player marked by the junior, the fifth player a headhunter with a
\* contract on one of the others, in any combination
Bonds ==
    {[lovers |-> l, marked |-> m, target |-> t] :
        l \in {<<>>, <<2, 6>>}, m \in {None, 3}, t \in {None, 2, 3, 6}}

NoBond == [lovers |-> <<>>, marked |-> None, target |-> None]

\* day_votes when the players whose choice is a player have sent /votar in the order
\* of their ids
VotesOf(ch) ==
    LET V(v) == IF ch[v] \notin {-1, None} THEN <<[key |-> v, val |-> ch[v]]>> ELSE <<>>
    IN V(1) \o V(2) \o V(3) \o V(4) \o V(5) \o V(6)

\* the cast of a match whose fourth player is the clown
ShotCast ==
    <<"Prefeito", "Xerife", "Anjo", "Palhaco", "GuardaCostas", "AssassinoJunior", "Cupido">>

\* what a player may have done in the vote: voted for a player, voted to skip (-1),
\* or neither (None). With bonds in the match, or after the accomplice's /fraudar,
\* the votes name players 2 and 6 only; in the last day, player 6 only; in a day with
\* a shot of the sheriff, the player shot or player 6
DayChoices(b, last, fr, sh) ==
    IF last THEN {6, None}
    ELSE IF sh THEN {4, 6, None}
    ELSE IF fr \/ b # NoBond THEN {2, 6, None}
    ELSE DayAlvos \cup {-1, None}

\* the vote is open and its timer runs: every living player has made one of
\* DayChoices and the mayor has or has not decreed. The day is the first one or, with
\* no bond and no decree, the last one of a match of LastCast; with no bond the
\* accomplice of a match of FraudCast may have sent /fraudar, or the sheriff of a
\* match of ShotCast may have shot the clown after the votes were cast
InitDay ==
    /\ \E d \in BOOLEAN, b \in Bonds, last \in BOOLEAN, fr \in BOOLEAN, sh \in BOOLEAN :
          /\ last => b = NoBond /\ ~d
          /\ fr => b = NoBond /\ ~last
          /\ sh => b = NoBond /\ ~last /\ ~fr
          /\ \E ch \in [1..6 -> DayChoices(b, last, fr, sh)] :
             game = [NewGame(IF last THEN LastCast ELSE IF fr THEN FraudCast
                             ELSE IF sh THEN ShotCast ELSE DayCast)
                     EXCEPT
                        !.fraud_used = fr, !.fraud_active = fr,
                        !.current_phase = "day_voting",
                        !.current_night = IF last THEN MAX_GAME_NIGHTS ELSE 1,
                        !.current_day = IF last THEN MAX_GAME_NIGHTS ELSE 1,
                        !.is_alive[7] = FALSE, !.death_reasons[7] = "villain",
                        !.killers[7] = <<6>>, !.first_death_id = 7,
                        !.is_alive[4] = ~sh,
                        !.death_reasons[4] = IF sh THEN "shot_by_sheriff" ELSE @,
                        !.killers[4] = IF sh THEN <<2>> ELSE @,
                        !.sheriff_shots_fired = IF sh THEN 1 ELSE @,
                        !.sheriff_shot_this_day = sh, !.sheriff_revealed = sh,
                        !.lovers = b.lovers, !.junior_marked_target_id = b.marked,
                        !.role[5] = IF b.target # None THEN "CacadorDeCabecas" ELSE @,
                        !.headhunter_info =
                            IF b.target # None
                            THEN <<[hunter_id |-> 5, target_id |-> b.target]>> ELSE <<>>,
                        !.day_votes = VotesOf(ch),
                        !.day_skip_votes = {v \in 1..6 : ch[v] = -1},
                        !.decreto_used = d, !.decreto_active = d, !.sabotage_blocked = d,
                        !.current_timer_task = 1]
    /\ registry = TRUE
    /\ tasks = <<[create_task("timer", Frame("timer_task", 95, None, "end_day_voting", <<>>))
                     EXCEPT !.current = TRUE]>>
    /\ report = NoFlowReport

NextDay == TimerExpires \/ Resume \/ Cancelled

SpecDay == InitDay /\ [][NextDay]_vars

-----------------------------------------------------------------------------
(* The end of a night: end_night on the kills of the Assassino Alfa and of   *)
(* the witch in a match of FlowCast, and the phases that follow.            *)

\* the players the Assassino Alfa may have named, None for no /eliminar
DawnAlfaAlvos == {None, 1, 2}

\* the players the witch may have named
DawnBruxoAlvos == {None, 1, 4}

\* the second night is over and its timer runs out: the Assassino Alfa and the witch
\* are alive, any of the others may have died before, and each of the two has or has
\* not sent /eliminar
InitDawn ==
    /\ \E dead \in SUBSET {2, 3, 5}, va \in DawnAlfaAlvos, vb \in DawnBruxoAlvos :
          LET g0 == [NewGame(FlowCast) EXCEPT
                        !.current_phase = "night", !.current_night = 2, !.current_day = 1,
                        !.is_alive = [p \in DOMAIN @ |-> p \notin dead],
                        !.death_reasons = [p \in DOMAIN @ |->
                                              IF p \in dead THEN "lynched" ELSE @[p]],
                        !.first_death_id = IF dead = {} THEN @ ELSE CHOOSE p \in dead : TRUE,
                        !.current_timer_task = 1]
          IN game = eliminar(eliminar(g0, 4, va), 6, vb)
    /\ registry = TRUE
    /\ tasks = <<[create_task("timer", Frame("timer_task", 95, None, "end_night", <<>>))
                     EXCEPT !.current = TRUE]>>
    /\ report = NoFlowReport

SpecDawn == InitDawn /\ [][NextDay]_vars

-----------------------------------------------------------------------------
(* Properties of the night's resolution.                                   *)

\* the attempts on a player as the death stage was given them
AttemptsOn(p) ==
    IF DictHas(report.kill_attempts, p)
    THEN report.kill_attempts[DictIdx(report.kill_attempts, p)].val ELSE <<>>

\* p is under protection and its only attack is the villains' kill
ProtectedFromVillains(p) ==
    /\ report.protected_by[p] # None
    /\ Len(AttemptsOn(p)) = 1
    /\ AttemptsOn(p)[1].source = "villain"

\* the deaths of the report tagged as the bodyguard's sacrifice for p
SacrificesFor(p) ==
    {i \in 1..Len(report.res.killed_players) :
        /\ report.res.killed_players[i].cause = "bodyguard_sacrifice"
        /\ report.res.killed_players[i].killer = <<p>>}

\* C1: resolve_night_actions returns a report, without raising, on every queue
\* that the submission commands can build.
C1_ResolverNeverRaises == report.status # "raised"

\* C8: once resolve_night_actions has been left, by whichever exit, the queue of
\* night actions is empty.
C8_QueueDrainedOnExit == report.status # "none" => game.night_actions = <<>>

\* C9: a player protected by a bodyguard whose only attack of the night is the
\* villains' kill is not in the death list; either the bodyguard absorbs the hit
\* as its first and nobody dies of the attack, or the bodyguard is the one death
\* of the attack, tagged bodyguard_sacrifice.
C9_ProtectedTargetSurvives ==
    report.status = "returned" =>
        \A p \in Players(game) :
            ProtectedFromVillains(p) =>
                /\ p \notin Victims(report.res.killed_players)
                /\ \/ /\ SacrificesFor(p) = {}
                      /\ game.bodyguard_hits_survived[report.protected_by[p]] = 1
                   \/ /\ Cardinality(SacrificesFor(p)) = 1
                      /\ \A i \in SacrificesFor(p) :
                            report.res.killed_players[i].victim = report.protected_by[p]
                      /\ game.bodyguard_hits_survived[report.protected_by[p]] >= 2

\* a night in which the bodyguard absorbed the villains' kill on its protected
\* player as its first hit
C9_Witness ==
    /\ report.status = "returned"
    /\ \E p \in Players(game) :
          /\ ProtectedFromVillains(p)
          /\ report.hits_before[report.protected_by[p]] = 0
          /\ game.bodyguard_hits_survived[report.protected_by[p]] = 1
          /\ report.res.killed_players = <<>>

\* the bodyguard g, not hit before, is attacked itself and p, which it protects, is
\* attacked by the villains' kill
BodyguardHitTwice(g, p) ==
    /\ report.protected_by[p] = g
    /\ report.hits_before[g] = 0
    /\ AttemptsOn(g) # <<>>
    /\ ProtectedFromVillains(p)

\* C10: the bodyguard's hit counter is shared. When the bodyguard is attacked
\* itself (its first hit, which it survives) and its protected player is attacked
\* by the villains' kill in the same night, the report has exactly one death: the
\* bodyguard, tagged bodyguard_sacrifice, with the protected player's id.
C10_SharedHitCounter ==
    report.status = "returned" =>
        \A g \in Players(game), p \in Players(game) :
            BodyguardHitTwice(g, p) =>
                report.res.killed_players = <<Death(g, "bodyguard_sacrifice", <<p>>, FALSE)>>

\* a night in which the witch attacked the bodyguard and the villains its protected
\* player, and the report came back
C10_Witness ==
    /\ report.status = "returned"
    /\ \E g \in Players(game), p \in Players(game) :
          /\ BodyguardHitTwice(g, p)
          /\ AttemptsOn(g)[1].source = "witch"
          /\ game.bodyguard_hits_survived[g] = 2

\* p is under protection and the first attack on it is the witch's kill
ProtectedFromWitch(p) ==
    /\ report.protected_by[p] # None
    /\ AttemptsOn(p) # <<>>
    /\ AttemptsOn(p)[1].source = "witch"
    /\ game.is_alive[p]

\* C11: in a report that does not end the match, a living player under protection
\* whose first attack is the witch's kill is in the death list with cause witch,
\* unless it is a bodyguard taking its first hit; the hit counter of its protector,
\* when the protector is not attacked itself, is what it was before the night.
C11_WitchKillIgnoresProtection ==
    (report.status = "returned" /\ ~report.res.game_over) =>
        \A p \in Players(game) :
            ProtectedFromWitch(p) =>
                /\ \/ isinstance(game.role[p], {"GuardaCostas"}) /\ report.hits_before[p] = 0
                   \/ \E i \in 1..Len(report.res.killed_players) :
                         /\ report.res.killed_players[i].victim = p
                         /\ report.res.killed_players[i].cause = "witch"
                /\ AttemptsOn(report.protected_by[p]) = <<>> =>
                      game.bodyguard_hits_survived[report.protected_by[p]]
                          = report.hits_before[report.protected_by[p]]

\* a night in which the witch killed the player the bodyguard protected
C11_Witness ==
    /\ report.status = "returned"
    /\ \E p \in Players(game) :
          /\ ProtectedFromWitch(p)
          /\ AttemptsOn(report.protected_by[p]) = <<>>
          /\ p \in Victims(report.res.killed_players)

\* the players an action names: the detective's marks, the cupid's pair, or the target
TargetsOf(data) ==
    (IF data.action = "mark_detective" THEN {data.target1_id, data.target2_id}
     ELSE IF data.action = "cupid_match" THEN {data.lover1_id, data.lover2_id}
     ELSE {data.target_id}) \ {None}

\* the legal pool of an action of actor a: the dead for a revival, the living
\* otherwise, as they were when the night's resolution began, without the actor
LegalPool(a, data) ==
    {p \in Players(game) :
        report.before.is_alive[p] = (data.action \notin {"angel_revive", "witch_revive"})} \ {a}

\* C12: for every action of the kinds protect, corrupt, possess, villain_vote,
\* witch_kill, revive, haunt, mark_detective and cupid_match whose actor is confused
\* this night and for which an alternate exists, none of the players the resolution
\* uses for the action is one the actor declared, and all are of the action's legal
\* pool.
C12_ConfusedTargetNeverHonoured ==
    report.status = "returned" =>
        \A i \in 1..Len(report.before.night_actions) :
            LET a == report.before.night_actions[i].key
                data == report.before.night_actions[i].data
                used == TargetsOf(QueueGet(report.redirected, a))
            IN (/\ report.is_confused[a]
                /\ data.action \in {"protect", "corrupt", "possess", "villain_vote",
                                    "witch_kill", "angel_revive", "witch_revive", "haunt",
                                    "mark_detective", "cupid_match"}
                /\ LegalPool(a, data) \ TargetsOf(data) # {})
               => /\ used \cap TargetsOf(data) = {}
                  /\ used \subseteq LegalPool(a, data)

\* what a run of the resolver decides: the deaths, the revivals, the end of the
\* match, and what it leaves on the players and on the one-shot flags
Outcome(r) ==
    [raised |-> r.raised,
     killed_players |-> r.res.killed_players, revived_players |-> r.res.revived_players,
     game_over |-> r.res.game_over, plague_kill_count |-> r.res.plague_kill_count,
     is_alive |-> r.g.is_alive, role |-> r.g.role,
     possession_points |-> r.g.possession_points, lovers |-> r.g.lovers,
     bodyguard_hits_survived |-> r.g.bodyguard_hits_survived,
     is_infected |-> r.g.is_infected,
     witch_potion_used |-> r.g.witch_potion_used,
     angel_revive_used |-> r.g.angel_revive_used,
     plague_exterminate_used |-> r.g.plague_exterminate_used]

OutcomesFrom(g, s3) ==
    {Outcome(resolve_night_actions(g, s3, [killer |-> ki[1], innocent |-> ki[2]])) :
        ki \in clue_choices(s3)}

\* the outcomes the resolver can reach on match g, over the picks of random.choice
Outcomes(g) == UNION {OutcomesFrom(g, deaths_and_revivals(g, conf)) : conf \in ConfChoices(g)}

\* the actors that a corrupt action of the night names
CorruptedActors ==
    {a \in QueueKeys(report.redirected) :
        \E i \in 1..Len(report.redirected) :
            /\ report.redirected[i].data.action = "corrupt"
            /\ report.redirected[i].data.target_id = a}

\* C13: when the resolver has run on a queue holding an action of an actor that is
\* corrupted this night, what it decided is an outcome it can reach on the same
\* match with that action taken out of the queue.
C13_CorruptionSuppressesAction ==
    report.status # "none" =>
        \A a \in CorruptedActors :
            Outcome([raised |-> report.status = "raised", res |-> report.res, g |-> game])
                \in Outcomes([report.before EXCEPT !.night_actions =
                                  SelectSeq(@, LAMBDA e : e.key # a)])

\* the actors of the queue that the night confuses and whose action has no other
\* player to go to
ConfusedWithoutAlternate ==
    {a \in QueueKeys(report.before.night_actions) :
        /\ report.is_confused[a]
        /\ "target_id" \in DOMAIN QueueGet(report.before.night_actions, a)
        /\ possible_targets(report.before, a, QueueGet(report.before.night_actions, a)) = {}}

\* C29: when the resolver has run on a queue holding the action of a confused actor
\* that has no other player to go to, what it decided is an outcome it can reach on
\* the same match with that action taken out of the queue.
C29_ConfusedWithoutAlternateIsNoOp ==
    report.status # "none" =>
        \A a \in ConfusedWithoutAlternate :
            Outcome([raised |-> report.status = "raised", res |-> report.res, g |-> game])
                \in Outcomes([report.before EXCEPT !.night_actions =
                                  SelectSeq(@, LAMBDA e : e.key # a)])

\* the orders in which the actors of a queue may have sent its actions
Reorders(q) == {[i \in DOMAIN q |-> q[f[i]]] : f \in Permutations(DOMAIN q)}

\* what an outcome holds whatever the order of its lists: who died of what, who came
\* back, and what is left on the players and on the one-shot flags
Unordered(o) ==
    [o EXCEPT !.killed_players = {<<@[i].victim, @[i].cause>> : i \in DOMAIN @},
              !.revived_players = {@[i][1] : i \in DOMAIN @}]

\* C35: when the resolver has run on a queue that holds no /confundir, the deaths,
\* the revivals and the flags it can decide are those it can decide on the same
\* match with the same actions sent in any other order.
C35_SubmissionOrderIsImmaterial ==
    (/\ report.status # "none"
     /\ \A i \in DOMAIN report.before.night_actions :
           report.before.night_actions[i].data.action # "confuse") =>
        \A q \in Reorders(report.before.night_actions) :
            {Unordered(o) : o \in Outcomes([report.before EXCEPT !.night_actions = q])}
                = {Unordered(o) : o \in Outcomes(report.before)}

\* the entries of the queue, as the resolver read it, that are votes for the
\* villains' kill of player t sent by actors the night has not corrupted
CountedVotes(t) ==
    {i \in 1..Len(report.redirected) :
        /\ report.redirected[i].data.action = "villain_vote"
        /\ report.redirected[i].data.target_id = t
        /\ report.redirected[i].key \notin CorruptedActors}

\* their weighted total
VoteTotal(t) ==
    Cardinality(CountedVotes(t))
      + Cardinality({i \in CountedVotes(t) : report.redirected[i].data.role = "AssassinoAlfa"})

\* the attempts of the villains on player t among the night's kill attempts
VillainAttemptsOn(t) ==
    {n \in 1..Len(AttemptsOn(t)) : AttemptsOn(t)[n].source = "villain"}

\* C30: the night's kill attempts hold at most one attempt of the villains; its
\* target has a weighted total of counted votes that no other player exceeds, and
\* the attackers it names are the senders of the counted votes for that target.
C30_OneVillainKillFromTheCountedVotes ==
    report.status # "none" =>
        /\ Cardinality({tn \in Players(game) \X (1..MaxQueue) :
                            tn[2] \in VillainAttemptsOn(tn[1])}) <= 1
        /\ \A t \in Players(game) : \A n \in VillainAttemptsOn(t) :
              /\ VoteTotal(t) > 0
              /\ \A u \in Players(game) : VoteTotal(u) <= VoteTotal(t)
              /\ Len(AttemptsOn(t)[n].attacker) = Cardinality(CountedVotes(t))
              /\ {AttemptsOn(t)[n].attacker[k] : k \in 1..Len(AttemptsOn(t)[n].attacker)}
                    = {report.redirected[i].key : i \in CountedVotes(t)}

\* the senders of the counted votes for the villains' kill of player t
CountedVoters(t) == {report.redirected[i].key : i \in CountedVotes(t)}

\* the players whose attack made death d of the report: the witch for her kill, the
\* villains whose votes counted for the victim, or for the player the bodyguard died
\* for
ResponsibleFor(d) ==
    IF d.cause = "villain" THEN CountedVoters(d.victim)
    ELSE IF d.cause = "bodyguard_sacrifice" THEN CountedVoters(d.killer[1])
    ELSE {d.killer[k] : k \in 1..Len(d.killer)}

\* message m names a player responsible for death d and at most one other player,
\* who was alive and is neither the detective det, the victim nor that player
CluePointsAt(m, d, det) ==
    /\ m.tag = "clue"
    /\ \E k \in m.ids \cap ResponsibleFor(d) :
          /\ Cardinality(m.ids \ {k}) <= 1
          /\ m.ids \ {k} \subseteq get_alive_players_states(report.before) \ {det, d.victim, k}

\* C31: when the resolver has returned and a player marked by a detective that is
\* not corrupted is among the night's deaths, the detective's messages hold a clue
\* that names a player responsible for the death of a marked player, and at most
\* one other living player who is neither the detective, the victim nor that one.
C31_ClueNamesAKiller ==
    report.status = "returned" =>
        \A i \in 1..Len(report.redirected) :
            LET e == report.redirected[i]
                marked == {DataGet(e.data, "target1_id"), DataGet(e.data, "target2_id")} \ {None}
                deaths == {n \in 1..Len(report.res.killed_players) :
                              report.res.killed_players[n].victim \in marked}
            IN (e.data.action = "mark_detective" /\ e.key \notin CorruptedActors
                /\ deaths # {}) =>
                   \E n \in deaths :
                      \E j \in 1..Len(report.res.dm_messages[e.key]) :
                         CluePointsAt(report.res.dm_messages[e.key][j],
                                      report.res.killed_players[n], e.key)

\* the players that were infected and alive when the night's resolution began
InfectedBefore ==
    {p \in Players(report.before) : report.before.is_infected[p] /\ report.before.is_alive[p]}

\* the senders of the plague_exterminate actions of the queue
Exterminators ==
    {report.redirected[i].key : i \in {j \in 1..Len(report.redirected) :
                                         report.redirected[j].data.action = "plague_exterminate"}}

\* C32: when the resolver has run on a queue holding a plague extermination with the
\* flag unspent, the flag is spent; with four or more infected players alive the
\* report says the match is over; with fewer, every living infected player is in
\* killed_players with cause killed_by_plague and the plague player as killer.
C32_ExterminationSpendsAndKills ==
    (report.status # "none" /\ Exterminators # {} /\ ~report.before.plague_exterminate_used) =>
        /\ game.plague_exterminate_used
        /\ Cardinality(InfectedBefore) >= 4 =>
              report.status = "returned" /\ report.res.game_over
        /\ Cardinality(InfectedBefore) < 4 =>
              /\ report.status = "returned"
              /\ \A p \in InfectedBefore :
                    \E n \in 1..Len(report.res.killed_players) :
                       /\ report.res.killed_players[n].victim = p
                       /\ report.res.killed_players[n].cause = "killed_by_plague"
                       /\ report.res.killed_players[n].killer = <<CHOOSE x \in Exterminators : TRUE>>

\* C37: no two entries of killed_players of a night's report name the same victim.
C37_VictimListedOnce ==
    report.status = "returned" =>
        \A i, j \in 1..Len(report.res.killed_players) :
            report.res.killed_players[i].victim = report.res.killed_players[j].victim
                => i = j

\* the players the report names as revived
RevivedIds == {report.res.revived_players[i][1] : i \in 1..Len(report.res.revived_players)}

\* C14: every player the report names as revived was dead when the night's
\* resolution began, and no player is both in revived_players and in killed_players
\* of the report.
C14_NoDeathAndRevivalTogether ==
    report.status = "returned" =>
        /\ \A p \in RevivedIds : ~report.before.is_alive[p]
        /\ RevivedIds \cap Victims(report.res.killed_players) = {}

\* a night whose report names both a revived player and a killed one
C14_Witness ==
    /\ report.status = "returned"
    /\ RevivedIds # {}
    /\ report.res.killed_players # <<>>

\* the flags of the abilities a match allows once
OneShotFlags ==
    {"decreto_used", "sabotage_used", "fraud_used", "witch_potion_used",
     "angel_revive_used", "medium_talk_used", "plague_exterminate_used"}

C16_PossessionPointsBounded ==
    \A p \in Players(game) :
        /\ game.possession_points[p] \in 0..3
        /\ game.possession_points[p] >= 3 => game.role[p] = "AssassinoSimples"

-----------------------------------------------------------------------------
(* Properties of the phases, the timers and the tasks of a match.          *)

Timers == {i \in DOMAIN tasks : tasks[i].kind = "timer"}

\* a run of end_night or end_day_voting that has passed its phase guard
InTransition(stack) ==
    \E k \in DOMAIN stack : stack[k].f \in {"end_night", "end_day_voting"} /\ stack[k].pc # 0

\* a run of end_night or end_day_voting whose resolver has been entered
AfterResolver(stack) ==
    \E k \in DOMAIN stack :
        \/ stack[k].f = "end_night" /\ stack[k].pc \notin {0, 197}
        \/ stack[k].f = "end_day_voting" /\ stack[k].pc \notin {0, 256}

\* the step is force_night run by the handler of /sabotar
SabotageStep ==
    \E i \in DOMAIN tasks :
        /\ tasks[i].kind = "sabotar"
        /\ Head(tasks[i].stack).f = "force_night"
        /\ \E j \in DOMAIN tasks' :
              tasks'[j].kind = "sabotar" /\ Head(tasks'[j].stack).f = "start_night"

\* C2: a step that enters a phase of an unfinished match either ends the match or follows preparing ->
\* night -> day_discussion -> day_voting -> night, or is the sabotage that forces
\* the night from a day phase; in particular no step enters night from night
C2_PhaseFollowsTheCycle ==
    [][(/\ game.current_phase # "finished"
        /\ \/ game'.current_phase # game.current_phase
           \/ game'.current_night # game.current_night)
       => \/ game'.current_phase = "finished"
          \/ <<game.current_phase, game'.current_phase>>
                \in {<<"preparing", "night">>, <<"night", "day_discussion">>,
                     <<"day_discussion", "day_voting">>, <<"day_voting", "night">>}
          \/ /\ game.current_phase \in {"day_discussion", "day_voting"}
             /\ game'.current_phase = "night"
             /\ SabotageStep]_vars

\* C3: once end_game has completed (phase finished, match out of the registry) no
\* step changes the phase or the night counter, starts a timer, or kills or revives
\* a player
C3_FinishedIsTerminal ==
    [][(game.current_phase = "finished" /\ ~registry)
       => /\ game'.current_phase = "finished"
          /\ game'.current_night = game.current_night
          /\ game'.is_alive = game.is_alive
          /\ game'.night_actions = game.night_actions
          /\ Cardinality({i \in DOMAIN tasks' : Head(tasks'[i].stack).f = "timer_task"})
                <= Cardinality({i \in DOMAIN tasks : Head(tasks[i].stack).f = "timer_task"})]_vars

C5_ResolutionRunsToCompletion ==
    \A i \in DOMAIN tasks : tasks[i].cancel => ~AfterResolver(tasks[i].stack)

\* C6: no task enters the night more than once
C6_NightEnteredOnce == \A i \in DOMAIN tasks : tasks[i].nights <= 1

\* timers that have neither ended nor been cancelled
LiveTimers == {i \in Timers : ~tasks[i].cancel}

\* C7: at most one timer that has neither ended nor been cancelled exists at any
\* time, every such timer is the one the match holds as its current timer, and no
\* phase instance has had its phase-end handler pass the phase guard twice
C7_OneLiveTimer ==
    /\ Cardinality(LiveTimers) <= 1
    /\ \A i \in LiveTimers : tasks[i].current
    /\ report.handled <= 1

-----------------------------------------------------------------------------
(* Properties of the day's vote.                                           *)

\* the strict majority of the living
MajorityOf(g) == (Cardinality({p \in Players(g) : g.is_alive[p]}) \div 2) + 1

\* the weight of a vote: 1 without the decree; with it 3 for the mayor, 2 for any
\* other voter of the town, 1 for the others
VoteWeight(g, v) ==
    IF ~g.decreto_active THEN 1
    ELSE IF g.role[v] = "Prefeito" THEN 3
    ELSE IF g.role[v] \in cidade_roles THEN 2 ELSE 1

RECURSIVE TallyOf(_, _, _)
TallyOf(g, votes, p) ==
    IF votes = <<>> THEN 0
    ELSE (IF votes[1].val = p THEN VoteWeight(g, votes[1].key) ELSE 0)
         + TallyOf(g, Tail(votes), p)

\* player p, alive before the step, is dead by a lynch after it
LynchedInStep(p) ==
    game.is_alive[p] /\ ~game'.is_alive[p] /\ game'.death_reasons[p] = "lynched"

\* the step in which end_day_voting goes on to process_lynch
LynchStep ==
    \E i \in DOMAIN tasks :
        /\ Head(tasks[i].stack).f = "end_day_voting" /\ Head(tasks[i].stack).pc = 256
        /\ ~tasks[i].cancel
        /\ \E rnd \in Picks(game, Head(tasks[i].stack)) : Commit(Run(Machine(i), rnd))

\* the vote maps process_lynch may tally: the submitted votes or, after /fraudar, the
\* same voters with the targets shuffled
Tallied == IF game.fraud_active THEN Shuffles(game.day_votes) ELSE {game.day_votes}

\* C17: nobody is lynched when the votes to skip reach the strict majority of the
\* living, nor a player whose tally is below that majority, nor a player whose tally
\* another player's tally equals or exceeds, the tallies being those of the votes
\* tallied.
C17_LynchNeedsMajorityAndNoTie ==
    [][\A p \in Players(game) :
          LynchedInStep(p) =>
              /\ Cardinality(game.day_skip_votes) < MajorityOf(game)
              /\ \E v \in Tallied :
                    /\ TallyOf(game, v, p) >= MajorityOf(game)
                    /\ \A q \in Players(game) \ {p} :
                          TallyOf(game, v, q) < TallyOf(game, v, p)]_vars

\* a player was lynched though another player had votes too and three had voted to
\* skip
C17_Witness ==
    \E p, q \in Players(game) :
        /\ p # q /\ game.death_reasons[p] = "lynched"
        /\ TallyOf(game, game.day_votes, q) > 0
        /\ Cardinality(game.day_skip_votes) = 3

\* C18: with the weights 1 without the decree and 3, 2, 1 with it, process_lynch
\* lynches player p exactly when the votes to skip are short of the strict majority
\* of the living, the tally of p over the votes tallied reaches that majority and
\* exceeds every other tally, and p is not the mayor on the first reprieve.
C18_DecreeWeights ==
    [][LynchStep =>
          \E v \in Tallied :
              \A p \in Players(game) :
                  LynchedInStep(p) <=>
                      /\ game.is_alive[p]
                      /\ Cardinality(game.day_skip_votes) < MajorityOf(game)
                      /\ TallyOf(game, v, p) >= MajorityOf(game)
                      /\ \A q \in Players(game) \ {p} :
                            TallyOf(game, v, q) < TallyOf(game, v, p)
                      /\ ~(game.role[p] = "Prefeito" /\ ~game.prefeito_saved_once)]_vars

\* Scenario D: six living, the decree in force, the mayor and four of the town vote
\* for Y and the villain votes elsewhere: 11 against 1, and Y is lynched
C18_Witness ==
    /\ game.decreto_active
    /\ game.day_votes = <<[key |-> 1, val |-> 6], [key |-> 2, val |-> 6],
                          [key |-> 3, val |-> 6], [key |-> 4, val |-> 6],
                          [key |-> 5, val |-> 6], [key |-> 6, val |-> 2]>>
    /\ TallyOf(game, game.day_votes, 6) = 11 /\ TallyOf(game, game.day_votes, 2) = 1
    /\ ~game.is_alive[6] /\ game.death_reasons[6] = "lynched"

\* C19: while the vote is open, /votar from a living player naming a living player
\* is accepted whatever the voter's role: day_votes then maps the voter to the
\* target and the voter is not among the votes to skip.
C19_AnyLivingPlayerMayVote ==
    \A a, j \in FlowNomes :
        (registry /\ game.current_phase = "day_voting"
         /\ game.is_alive[a] /\ game.is_alive[j]) =>
            LET after == votar(game, a, j).g IN
            /\ DictHas(after.day_votes, a)
            /\ after.day_votes[DictIdx(after.day_votes, a)].val = j
            /\ a \notin after.day_skip_votes

-----------------------------------------------------------------------------
(* Properties of process_death.                                            *)

\* some task is inside process_death
InDeathPass ==
    \E i \in DOMAIN tasks : \E k \in DOMAIN tasks[i].stack :
        tasks[i].stack[k].f = "process_death"

\* C20: outside the processing of a death, a dead lover's partner is dead too, of
\* heartbreak unless the partner died first.
C20_LoversDieTogether ==
    (game.lovers # <<>> /\ ~InDeathPass) =>
        \A k \in 1..2 :
            ~game.is_alive[game.lovers[k]] =>
                /\ ~game.is_alive[game.lovers[3 - k]]
                /\ "heartbreak" \in {game.death_reasons[game.lovers[1]],
                                     game.death_reasons[game.lovers[2]]}

C22_OtherDeathVoidsTheContract ==
    ~InDeathPass =>
        \A h \in Players(game) :
            game.role[h] = "CacadorDeCabecas" =>
                /\ game.headhunter_info # <<>>
                /\ \/ game.is_alive[game.headhunter_info[1].target_id]
                   \/ game.death_reasons[game.headhunter_info[1].target_id] = "lynched"

-----------------------------------------------------------------------------
(* Properties of check_game_end.                                           *)

\* check_game_end called on match g, with no victim, while the match is registered:
\* the task after the call's first lines
Evaluated(g) ==
    check_game_end([g |-> g, reg |-> TRUE,
                    ts |-> <<create_task("check", Enter("check_game_end"))>>,
                    rp |-> NoFlowReport, me |-> 1, ret |-> FALSE, halt |-> FALSE])

\* the title of the outcome the call declares, "" when it declares none
Declared(g) ==
    LET stack == Evaluated(g).ts[1].stack IN
    IF stack # <<>> /\ stack[1].f = "end_game" THEN stack[1].r ELSE ""

\* the call returns False and leaves the match as it was
LeftRunning(g) ==
    /\ Evaluated(g).ts[1].stack = <<>> /\ ~Evaluated(g).ret
    /\ Evaluated(g).g = g

\* the match as it is with the players of al alive and the others dead
WithAlive(al) == [game EXCEPT !.is_alive = [p \in Players(game) |-> p \in al]]

\* a vote is open and no vote is in; check_game_end reads the roles of the match and
\* who is alive, and the properties below call it here for every set of the living
VoteJustOpened ==
    game.current_phase = "day_voting" /\ report.handled = 0 /\ game.day_votes = <<>>

\* C23: whoever of the match is alive, check_game_end declares a draw when nobody
\* is, the town's win when no villain is and the mayor is, the villains' win when
\* the living villains are as many as the other living players or more, and leaves
\* the match running when the living villains are fewer.
C23_WinConditions ==
    VoteJustOpened =>
    \A al \in SUBSET Players(game) :
        LET g == WithAlive(al)
            villains == {p \in al : g.role[p] \in viloes_roles}
            mayor == {p \in al : g.role[p] = "Prefeito"}
        IN /\ al = {} => Declared(g) = "Empate catastrofico!"
           /\ (villains = {} /\ mayor # {}) => Declared(g) = "Vitoria da Cidade!"
           /\ (villains # {} /\ Cardinality(villains) >= Cardinality(al \ villains))
                 => Declared(g) = "Vitoria dos Viloes!"
           /\ (villains # {} /\ Cardinality(villains) < Cardinality(al \ villains))
                 => LeftRunning(g)

\* the town's win was declared with the mayor alive and the last villain lynched
C23_Witness ==
    /\ report.titles = <<"Vitoria da Cidade!">>
    /\ game.is_alive[1] /\ game.death_reasons[6] = "lynched"
    /\ Declared(game) = "Vitoria da Cidade!"

\* task 1 of machine st goes on, through its suspensions, until it ends; its prompts
\* time out
RECURSIVE Completed(_)
Completed(st) ==
    IF st.ts[1].stack = <<>> THEN st
    ELSE Completed(Run([st EXCEPT !.halt = FALSE], NoPick))

\* check_game_end called, without a victim, in machine st and run to its end
CheckedIn(st) ==
    Completed([st EXCEPT !.ts[1].stack = <<Enter("check_game_end")>>, !.ret = FALSE,
                         !.halt = FALSE])

\* a registered match g in which no task is running but the caller's
Idle(g) ==
    [g |-> g, reg |-> TRUE, ts |-> <<[create_task("check", Enter("check_game_end")) EXCEPT !.stack = <<>>]>>, rp |-> NoFlowReport,
     me |-> 1, ret |-> FALSE, halt |-> FALSE]

\* C24: whoever of the match is alive, a second call of check_game_end right after
\* a first one declares no further outcome and leaves the match, its timers and
\* the registry as the first call left them.
C24_CheckGameEndIdempotent ==
    VoteJustOpened =>
    \A al \in SUBSET Players(game) :
        LET once == CheckedIn(Idle(WithAlive(al)))
            twice == CheckedIn(once)
        IN /\ twice.g = once.g
           /\ twice.rp.titles = once.rp.titles
           /\ twice.reg = once.reg
           /\ Len(twice.ts) = Len(once.ts)

-----------------------------------------------------------------------------
(* Properties of the last nights of a match.                               *)

\* no villain is alive in g, the mayor is dead and a living angel or witch has its
\* revival unused
RevivalChance(g) ==
    /\ \A p \in Players(g) : g.is_alive[p] => g.role[p] \notin viloes_roles
    /\ \A p \in Players(g) : g.role[p] = "Prefeito" => ~g.is_alive[p]
    /\ \E p \in Players(g) :
          /\ g.is_alive[p]
          /\ \/ g.role[p] = "Anjo" /\ ~g.angel_revive_used
             \/ g.role[p] = "Bruxo" /\ ~g.witch_potion_used

\* check_game_end has set pending_resolution and not yet called start_night
Announcing ==
    \E i \in DOMAIN tasks : \E k \in DOMAIN tasks[i].stack :
        tasks[i].stack[k].f = "check_game_end" /\ tasks[i].stack[k].pc = 338

\* C25: pending_resolution is set only on a revival chance and without declaring an
\* outcome; while it is set the match is in the night that follows; and the step
\* that ends that night clears it and declares an outcome, the town's win when the
\* mayor is alive.
C25_RevivalNightDecides ==
    /\ [][(~game.pending_resolution /\ game'.pending_resolution) =>
             (RevivalChance(game') /\ report'.titles = report.titles)]_vars
    /\ []((game.pending_resolution /\ ~Announcing) => game.current_phase = "night")
    /\ [][(game.pending_resolution /\ ~game'.pending_resolution) =>
             /\ Len(report'.titles) = Len(report.titles) + 1
             /\ (\E p \in Players(game') : game'.role[p] = "Prefeito" /\ game'.is_alive[p])
                   => report'.titles[Len(report'.titles)] = "Vitoria da Cidade!"]_vars

\* C26: once current_night has reached MAX_GAME_NIGHTS the night counter is never
\* raised again, except for the night that pending_resolution announces.
C26_NoNightAfterTheLast ==
    [][(game.current_night >= MAX_GAME_NIGHTS /\ game'.current_night > game.current_night)
          => game'.pending_resolution]_vars

\* task i is in the end_game that the showdown's shot at the Assassino Alfa calls
ShowdownHit(i) ==
    \E k \in 1..(Len(tasks[i].stack) - 1) :
        /\ tasks[i].stack[k].f = "end_game" /\ tasks[i].stack[k].pc # 0
        /\ tasks[i].stack[k].r = "Vitoria da Cidade!"
        /\ tasks[i].stack[k + 1].f = "sheriff_showdown_loop"

InFinalAttack ==
    \E i \in DOMAIN tasks : \E k \in DOMAIN tasks[i].stack :
        tasks[i].stack[k].f = "villain_final_attack"

\* C27: when the sheriff's shot of the final confrontation hits the Assassino Alfa,
\* one outcome is declared, the town's win, with every player of the town's faction
\* as winner, dead or alive; and the villains' final attack runs only while no
\* outcome has been declared.
C27_ShowdownShotWinsForTheTown ==
    /\ \A i \in DOMAIN tasks : ShowdownHit(i) =>
          /\ report.titles = <<"Vitoria da Cidade!">>
          /\ report.winners = <<faction_members(game, "Cidade")>>
    /\ InFinalAttack => report.titles = <<>>

C27_Witness ==
    /\ \E i \in DOMAIN tasks : ShowdownHit(i)
    /\ game.current_phase = "finished"
    /\ \E p \in Players(game) : faction(game.role[p]) = "Cidade" /\ ~game.is_alive[p]
    /\ \E p \in Players(game) : game.role[p] = "AssassinoAlfa" /\ game.is_alive[p]

-----------------------------------------------------------------------------
(* Properties of the deaths of a night.                                    *)

\* the victims of the night that end_night has not yet handed to process_death
Unprocessed ==
    UNION {{tasks[i].stack[k].q.killed[n].victim : n \in DOMAIN tasks[i].stack[k].q.killed} :
              <<i, k>> \in {ik \in (DOMAIN tasks) \X (1..6) :
                               /\ ik[2] \in DOMAIN tasks[ik[1]].stack
                               /\ tasks[ik[1]].stack[ik[2]].f = "end_night"
                               /\ tasks[ik[1]].stack[ik[2]].pc \in {202, 207}}}

\* the outcomes check_game_end declares on g run to its end, prompts timing out
OutcomeOf(g) == CheckedIn(Idle(g)).rp.titles

\* C28: an outcome declared while deaths of the night are still to be processed is
\* the outcome of the match with those deaths applied too.
C28_OutcomeOfTheWholeBatch ==
    [][(report.titles = <<>> /\ report'.titles # <<>> /\ Unprocessed' # {}) =>
          report'.titles =
             OutcomeOf([game' EXCEPT !.is_alive = [p \in DOMAIN @ |->
                                                     @[p] /\ p \notin Unprocessed']])]_vars

-----------------------------------------------------------------------------
(* Properties of a vote after /fraudar.                                    *)

\* the number of the votes of a vote map that name player p
BallotsFor(votes, p) == Cardinality({i \in DOMAIN votes : votes[i].val = p})

\* the player process_lynch lynches on a vote map, None for nobody: the candidate of
\* the tally unless that is the mayor on the first reprieve
LynchedOn(g, votes) ==
    LET c == lynched_candidate(g, vote_counts(g, votes))
    IN IF c # None /\ g.role[c] = "Prefeito" /\ ~g.prefeito_saved_once THEN None ELSE c

\* C33: with the fraud active the votes process_lynch tallies have the voters of the
\* submitted votes, in the same order, and every player is named by as many of them as
\* by the submitted ones; with no decree active the player lynched, or nobody, is the
\* one the submitted votes give.
C33_FraudPermutesTheTargets ==
    [][(LynchStep /\ game.fraud_active) =>
          /\ \A v \in Shuffles(game.day_votes) :
                /\ DOMAIN v = DOMAIN game.day_votes
                /\ \A i \in DOMAIN v : v[i].key = game.day_votes[i].key
                /\ \A p \in Players(game) :
                      BallotsFor(v, p) = BallotsFor(game.day_votes, p)
                /\ ~game.decreto_active =>
                      LynchedOn(game, v) = LynchedOn(game, game.day_votes)
          /\ ~game.decreto_active =>
                \A p \in Players(game) :
                    LynchedInStep(p) <=> p = LynchedOn(game, game.day_votes)]_vars

\* after /fraudar and with no decree a player was lynched on votes that name another
\* player too
C33_Witness ==
    /\ game.fraud_used /\ ~game.decreto_used
    /\ \E p, q \in Players(game) :
          /\ p # q /\ game.death_reasons[p] = "lynched"
          /\ TallyOf(game, game.day_votes, p) > 0
          /\ TallyOf(game, game.day_votes, q) > 0

-----------------------------------------------------------------------------
(* Properties of the chains of deaths.                                     *)

\* the positions of the process_death frames of task i, the innermost call first
DeathFrames(i) ==
    {k \in DOMAIN tasks[i].stack : tasks[i].stack[k].f = "process_death"}

\* C34: the nested calls of process_death of a task are for distinct players, all
\* dead but the one of a call that has just been entered, so that a chain is no
\* longer than the players are many; and a dead player stays dead with the cause
\* of death first recorded.
C34_DeathChainsEnd ==
    /\ [](\A i \in DOMAIN tasks :
            \A k, l \in DeathFrames(i) :
                /\ k # l => tasks[i].stack[k].p # tasks[i].stack[l].p
                /\ tasks[i].stack[k].pc # 0 => ~game.is_alive[tasks[i].stack[k].p]
                /\ Cardinality(DeathFrames(i)) <= Cardinality(Players(game)))
    /\ [][\A p \in Players(game) :
            ~game.is_alive[p] =>
                ~game'.is_alive[p] /\ game'.death_reasons[p] = game.death_reasons[p]]_vars

\* the sheriff was lynched, the junior died of heartbreak and the player the junior
\* had marked died of the curse, and no call of process_death is left
C34_Witness ==
    /\ game.death_reasons[2] = "lynched" /\ game.death_reasons[6] = "heartbreak"
    /\ game.death_reasons[3] = "killed_by_junior_curse"
    /\ \A i \in DOMAIN tasks : DeathFrames(i) = {}

-----------------------------------------------------------------------------
(* Properties of the commands received while a phase is being resolved.    *)

\* a task is suspended in end_night, past its phase guard, and the match is still in
\* that night; or in end_day_voting, and the match is still in that vote
Resolving ==
    \E i \in DOMAIN tasks :
        \/ /\ Head(tasks[i].stack).f = "end_night" /\ Head(tasks[i].stack).pc # 0
           /\ game.current_phase = "night"
        \/ /\ Head(tasks[i].stack).f = "end_day_voting" /\ Head(tasks[i].stack).pc # 0
           /\ game.current_phase = "day_voting"

\* C36: a command of a player received while end_night or end_day_voting is under
\* way changes neither the queue of night actions nor the votes of the day.
C36_NoIntentWhileResolving ==
    [][(Resolving /\ (CmdEliminar \/ CmdReviver \/ Votar \/ Pular)) =>
          /\ game'.night_actions = game.night_actions
          /\ game'.day_votes = game.day_votes
          /\ game'.day_skip_votes = game.day_skip_votes]_vars

-----------------------------------------------------------------------------
(* Properties of a vote that names a dead player.                          *)

-----------------------------------------------------------------------------
(* Properties of the end of a match.                                       *)

\* C39: a match is announced as over at most once and its winners are handed to the
\* ranking at most once.
C39_ConcludedAtMostOnce == Len(report.titles) <= 1 /\ report.ranked <= 1

-----------------------------------------------------------------------------
(* Progress of a match.                                                    *)

\* C40: a match that has started and is not finished has a task to run: a timer
\* whose sleep will end or a coroutine whose await will complete.
C40_EveryMatchEnds ==
    game.current_phase \notin {"preparing", "finished"} => tasks # <<>>

====
